---------------------------- MODULE Spec2Model ----------------------------
(***************************************************************************)
(* coroc: the coroutine compiler of tsingson/coroutine.                    *)
(*                                                                         *)
(* The model holds a small Go syntax tree (statements and expressions as   *)
(* records), the compiler passes of coroc/compiler/compile.go as operators *)
(* over that tree (compileFunction, compileStatement, compileDispatch),    *)
(* and an interpreter that runs the generated function against the frame   *)
(* stack of the coroutine runtime, one statement per step, through every   *)
(* suspend/resume cycle.                                                   *)
(***************************************************************************)
EXTENDS Integers, Sequences, FiniteSets, TLC

(***************************************************************************)
(* Bounds of the model.                                                    *)
(***************************************************************************)
\* largest argument a coroutine is started with
MaxN == 3
\* cap on the number of calls the driver makes into one coroutine
MaxCalls == 6

(***************************************************************************)
(* Syntax tree.  Every statement node carries an id, which stands for the  *)
(* pointer identity of the ast.Stmt (the key of the span map).  An         *)
(* identifier carries its surface name and the declaration it resolves to  *)
(* (ast.Ident.Name, ast.Ident.Obj).                                        *)
(***************************************************************************)
Nil == [kind |-> "nil"]

Ident(n, o) == [name |-> n, obj |-> o]

Const(c) == [k |-> "const", c |-> c]

Var(x) == [k |-> "var", x |-> x]

Bin(op, a, b) == [k |-> "bin", op |-> op, a |-> a, b |-> b]

\* the generated guard expression  _f.IP < c
IPLess(c) == [k |-> "iplt", c |-> c]

Assign(i, x, tok, e) == [kind |-> "assign", id |-> i, lhs |-> x, tok |-> tok, rhs |-> e]

IncDec(i, x, tok) == [kind |-> "incdec", id |-> i, x |-> x, tok |-> tok]

\* an expression statement calling coroutine.Yield
YieldStmt(i, e) == [kind |-> "yield", id |-> i, arg |-> e]

\* an expression statement calling a function of the package
CallStmt(i, f, args) == [kind |-> "call", id |-> i, fn |-> f, args |-> args]

Return(i) == [kind |-> "return", id |-> i]

Block(i, l) == [kind |-> "block", id |-> i, list |-> l]

If(i, c, b, e) == [kind |-> "if", id |-> i, cond |-> c, body |-> b, els |-> e]

For(i, init, c, post, b) ==
    [kind |-> "for", id |-> i, init |-> init, cond |-> c, post |-> post, body |-> b]

Switch(i, tag, cases) == [kind |-> "switch", id |-> i, tag |-> tag, body |-> cases]

CaseClause(i, l, b) == [kind |-> "case", id |-> i, list |-> l, body |-> b]

\* the generated statement  _f.IP = v
SetIP(v) == [kind |-> "setip", id |-> 0, val |-> v]

Fallthrough == [kind |-> "fallthrough", id |-> 0]

\* a function declaration with named results
FuncDeclR(n, ps, rs, b) == [name |-> n, params |-> ps, results |-> rs, body |-> b]

FuncDecl(n, ps, b) == FuncDeclR(n, ps, <<>>, b)


(***************************************************************************)
(* The package being compiled: coroc/testdata/coroutine.go (Identity,      *)
(* SquareGenerator) and further functions of the same accepted statement   *)
(* kinds, which exercise lists, conditionals, loops and switches.          *)
(***************************************************************************)
IdN == Ident("n", "n")

IdI == Ident("i", "i")

IdX == Ident("x", "x")

\* func Identity(n int) { coroutine.Yield[int, any](n) }
Identity == FuncDecl("Identity", <<IdN>>, Block(1, <<YieldStmt(2, Var(IdN))>>))

\* func SquareGenerator(n int) { for i := 1; i <= n; i++ { coroutine.Yield[int, any](i * i) } }
SquareGenerator ==
    FuncDecl("SquareGenerator", <<IdN>>,
        Block(1, <<For(2, Assign(3, IdI, "define", Const(1)),
                          Bin("le", Var(IdI), Var(IdN)),
                          IncDec(4, IdI, "inc"),
                          Block(5, <<YieldStmt(6, Bin("mul", Var(IdI), Var(IdI)))>>))>>))

\* func Flat(n int) { x := n; Yield(x); x++; Yield(x); x++ }
Flat ==
    FuncDecl("Flat", <<IdN>>,
        Block(1, <<Assign(2, IdX, "define", Var(IdN)),
                   YieldStmt(3, Var(IdX)),
                   IncDec(4, IdX, "inc"),
                   YieldStmt(5, Var(IdX)),
                   IncDec(6, IdX, "inc")>>))

\* func CountDown(n int) { for n > 0 { Yield(n); n-- } }
CountDown ==
    FuncDecl("CountDown", <<IdN>>,
        Block(1, <<For(2, Nil, Bin("gt", Var(IdN), Const(0)), Nil,
                          Block(3, <<YieldStmt(4, Var(IdN)),
                                     IncDec(5, IdN, "dec")>>))>>))

\* func ElseBranch(n int) { if n > 1 { Yield(n) } else { n++; Yield(n); n++ } }
ElseBranch ==
    FuncDecl("ElseBranch", <<IdN>>,
        Block(1, <<If(2, Bin("gt", Var(IdN), Const(1)),
                         Block(3, <<YieldStmt(4, Var(IdN))>>),
                         Block(5, <<IncDec(6, IdN, "inc"),
                                    YieldStmt(7, Var(IdN)),
                                    IncDec(8, IdN, "inc")>>))>>))

\* func CondChange(n int) { x := 0; if n > 0 { n--; Yield(n); x++ }; Yield(x) }
CondChange ==
    FuncDecl("CondChange", <<IdN>>,
        Block(1, <<Assign(2, IdX, "define", Const(0)),
                   If(3, Bin("gt", Var(IdN), Const(0)),
                         Block(4, <<IncDec(5, IdN, "dec"),
                                    YieldStmt(6, Var(IdN)),
                                    IncDec(7, IdX, "inc")>>),
                         Nil),
                   YieldStmt(8, Var(IdX))>>))

\* func LoopCond(n int) { x := 0; for n > 0 { n--; Yield(n); x++ }; Yield(x) }
LoopCond ==
    FuncDecl("LoopCond", <<IdN>>,
        Block(1, <<Assign(2, IdX, "define", Const(0)),
                   For(3, Nil, Bin("gt", Var(IdN), Const(0)), Nil,
                          Block(4, <<IncDec(5, IdN, "dec"),
                                     YieldStmt(6, Var(IdN)),
                                     IncDec(7, IdX, "inc")>>)),
                   YieldStmt(8, Var(IdX))>>))

\* func SwitchLoop(n int) {
\*     switch n { case 0: Yield(0); n++
\*                default: for n < 3 { Yield(n); n++ } } }
SwitchLoop ==
    FuncDecl("SwitchLoop", <<IdN>>,
        Block(1, <<Switch(2, Var(IdN),
                     <<CaseClause(3, <<Const(0)>>,
                           <<YieldStmt(4, Const(0)), IncDec(5, IdN, "inc")>>),
                       CaseClause(6, <<>>,
                           <<For(7, Nil, Bin("lt", Var(IdN), Const(3)), Nil,
                                    Block(8, <<YieldStmt(9, Var(IdN)),
                                               IncDec(10, IdN, "inc")>>))>>)>>)>>))

\* func EarlyReturn(n int) { x := n; if n > 1 { return }; Yield(x); x++ }
EarlyReturn ==
    FuncDecl("EarlyReturn", <<IdN>>,
        Block(1, <<Assign(2, IdX, "define", Var(IdN)),
                   If(3, Bin("gt", Var(IdN), Const(1)),
                         Block(4, <<Return(5)>>), Nil),
                   YieldStmt(6, Var(IdX)),
                   IncDec(7, IdX, "inc")>>))

\* func Nested(n int) {
\*     for i := 0; i < n; i++ { x := i; Yield(x); for x < 2 { Yield(x + i); x++ } } }
Nested ==
    FuncDecl("Nested", <<IdN>>,
        Block(1, <<For(2, Assign(3, IdI, "define", Const(0)),
                          Bin("lt", Var(IdI), Var(IdN)),
                          IncDec(4, IdI, "inc"),
                          Block(5, <<Assign(6, IdX, "define", Var(IdI)),
                                     YieldStmt(7, Var(IdX)),
                                     For(8, Nil, Bin("lt", Var(IdX), Const(2)), Nil,
                                            Block(9, <<YieldStmt(10, Bin("add", Var(IdX), Var(IdI))),
                                                       IncDec(11, IdX, "inc")>>))>>))>>))

\* func ElseLoop(n int) { if n > 2 { Yield(n) } else { for n < 2 { Yield(n); n++ } } }
ElseLoop ==
    FuncDecl("ElseLoop", <<IdN>>,
        Block(1, <<If(2, Bin("gt", Var(IdN), Const(2)),
                         Block(3, <<YieldStmt(4, Var(IdN))>>),
                         Block(5, <<For(6, Nil, Bin("lt", Var(IdN), Const(2)), Nil,
                                           Block(7, <<YieldStmt(8, Var(IdN)),
                                                      IncDec(9, IdN, "inc")>>))>>))>>))

\* func ParamAssign(n int) { n = n + 1; Yield(n) }
ParamAssign ==
    FuncDecl("ParamAssign", <<IdN>>,
        Block(1, <<Assign(2, IdN, "assign", Bin("add", Var(IdN), Const(1))),
                   YieldStmt(3, Var(IdN))>>))

\* func Caller(n int) { x := n; Identity(x); x++; Yield(x) }
Caller ==
    FuncDecl("Caller", <<IdN>>,
        Block(1, <<Assign(2, IdX, "define", Var(IdN)),
                   CallStmt(3, "Identity", <<Var(IdX)>>),
                   IncDec(4, IdX, "inc"),
                   YieldStmt(5, Var(IdX))>>))

\* func Shadow(n int) {
\*     x := n
\*     if n < 9 { x := 7; Yield(x); n := x + 1; Yield(n) }
\*     Yield(x); Yield(n) }
\* The x and the n declared inside the if are other variables than the x
\* and the n outside.
Shadow ==
    FuncDecl("Shadow", <<IdN>>,
        Block(1, <<Assign(2, IdX, "define", Var(IdN)),
                   If(3, Bin("lt", Var(IdN), Const(9)),
                         Block(4, <<Assign(5, Ident("x", "x.1"), "define", Const(7)),
                                    YieldStmt(6, Var(Ident("x", "x.1"))),
                                    Assign(7, Ident("n", "n.1"), "define",
                                           Bin("add", Var(Ident("x", "x.1")), Const(1))),
                                    YieldStmt(8, Var(Ident("n", "n.1")))>>),
                         Nil),
                   YieldStmt(9, Var(IdX)),
                   YieldStmt(10, Var(IdN))>>))

\* func Tally(_ int, n int) (r int) { x := n; Yield(x); r++; x++; Yield(x + r) }
Tally ==
    FuncDeclR("Tally", <<Ident("_", "nil"), IdN>>, <<Ident("r", "r")>>,
        Block(1, <<Assign(2, IdX, "define", Var(IdN)),
                   YieldStmt(3, Var(IdX)),
                   IncDec(4, Ident("r", "r"), "inc"),
                   IncDec(5, IdX, "inc"),
                   YieldStmt(6, Bin("add", Var(IdX), Var(Ident("r", "r"))))>>))

\* func Hollow(n int) { x := n; {}; Yield(x); x++ }
Hollow ==
    FuncDecl("Hollow", <<IdN>>,
        Block(1, <<Assign(2, IdX, "define", Var(IdN)),
                   Block(3, <<>>),
                   YieldStmt(4, Var(IdX)),
                   IncDec(5, IdX, "inc")>>))

\* the colored functions of the package, by name
Package ==
    [f \in {"Identity", "SquareGenerator", "Flat", "CountDown", "ElseBranch",
            "CondChange", "LoopCond", "SwitchLoop", "EarlyReturn", "Nested",
            "ParamAssign", "Caller", "ElseLoop", "Shadow", "Tally", "Hollow"} |->
        CASE f = "Identity" -> Identity
          [] f = "SquareGenerator" -> SquareGenerator
          [] f = "Flat" -> Flat
          [] f = "CountDown" -> CountDown
          [] f = "ElseBranch" -> ElseBranch
          [] f = "CondChange" -> CondChange
          [] f = "LoopCond" -> LoopCond
          [] f = "SwitchLoop" -> SwitchLoop
          [] f = "EarlyReturn" -> EarlyReturn
          [] f = "Nested" -> Nested
          [] f = "ParamAssign" -> ParamAssign
          [] f = "Caller" -> Caller
          [] f = "ElseLoop" -> ElseLoop
          [] f = "Shadow" -> Shadow
          [] f = "Tally" -> Tally
          [] f = "Hollow" -> Hollow]

FuncNames == DOMAIN Package

(***************************************************************************)
(* Expressions.  env maps a variable key to its value; ip is the frame's   *)
(* instruction pointer (read by the generated guards only).  key tells how *)
(* an identifier names its variable: by declaration in the source program, *)
(* by (rewritten) name in the generated one.                               *)
(***************************************************************************)
ObjKey(x) == x.obj

NameKey(x) == x.name

B2I(b) == IF b THEN 1 ELSE 0

RECURSIVE Eval(_, _, _, _)
Eval(e, env, ip, byName) ==
    CASE e.k = "const" -> e.c
      [] e.k = "var" -> env[IF byName THEN NameKey(e.x) ELSE ObjKey(e.x)]
      [] e.k = "iplt" -> B2I(ip < e.c)
      [] e.k = "bin" ->
            LET a == Eval(e.a, env, ip, byName)
                b == Eval(e.b, env, ip, byName)
            IN CASE e.op = "add" -> a + b
                 [] e.op = "mul" -> a * b
                 [] e.op = "le" -> B2I(a <= b)
                 [] e.op = "lt" -> B2I(a < b)
                 [] e.op = "gt" -> B2I(a > b)
                 [] e.op = "eq" -> B2I(a = b)

\* a condition holds when it is absent (for { ... }) or evaluates to true
Holds(c, env, ip, byName) == IF c = Nil THEN TRUE ELSE Eval(c, env, ip, byName) = 1

\* x++ / x--
Step1(tok) == IF tok = "inc" THEN 1 ELSE -1

\* the case clause a switch selects: the first whose expression list matches
\* the tag (a clause without a tag compares each expression with true), else
\* the default clause (empty list), else 0
RECURSIVE MatchCase(_, _, _, _, _, _)
MatchCase(cases, i, tag, env, ip, byName) ==
    IF i > Len(cases) THEN 0
    ELSE IF \E j \in 1..Len(cases[i].list) :
               Eval(cases[i].list[j], env, ip, byName)
                   = (IF tag = Nil THEN 1 ELSE Eval(tag, env, ip, byName))
         THEN i
         ELSE MatchCase(cases, i + 1, tag, env, ip, byName)

DefaultCase(cases) ==
    IF \E i \in 1..Len(cases) : cases[i].list = <<>>
    THEN CHOOSE i \in 1..Len(cases) : cases[i].list = <<>>
    ELSE 0

SelectCase(cases, tag, env, ip, byName) ==
    LET m == MatchCase(cases, 1, tag, env, ip, byName)
    IN IF m > 0 THEN m ELSE DefaultCase(cases)

\* the statements run from clause i on: its body, and through a trailing
\* fallthrough the body of the next clause
RECURSIVE CaseFlow(_, _)
CaseFlow(cases, i) ==
    IF i = 0 \/ i > Len(cases) THEN <<>>
    ELSE LET b == cases[i].body
         IN IF Len(b) > 0 /\ b[Len(b)].kind = "fallthrough"
            THEN SubSeq(b, 1, Len(b) - 1) \o CaseFlow(cases, i + 1)
            ELSE b


(***************************************************************************)
(* The source function run once, without interruption: the meaning of the  *)
(* function before it is compiled (build tag !durable).  A run's state is  *)
(* the variables, the leaf statements executed so far with the value each  *)
(* computed, the values yielded, and whether a return was executed.        *)
(***************************************************************************)
Bind(env, key, v) == (key :> v) @@ env

Log(fn, i, v) == [fn |-> fn, id |-> i, val |-> v]

RECURSIVE RefStmt(_, _, _), RefList(_, _, _, _), RefLoop(_, _, _)
RefStmt(s, st, fn) ==
    IF st.halt THEN st
    ELSE CASE s.kind = "assign" ->
                LET v == Eval(s.rhs, st.env, 0, FALSE)
                IN [st EXCEPT !.env = Bind(@, ObjKey(s.lhs), v),
                              !.trace = Append(@, Log(fn, s.id, v))]
           [] s.kind = "incdec" ->
                LET v == st.env[ObjKey(s.x)] + Step1(s.tok)
                IN [st EXCEPT !.env = Bind(@, ObjKey(s.x), v),
                              !.trace = Append(@, Log(fn, s.id, v))]
           [] s.kind = "yield" ->
                LET v == Eval(s.arg, st.env, 0, FALSE)
                IN [st EXCEPT !.trace = Append(@, Log(fn, s.id, v)),
                              !.yields = Append(@, v)]
           [] s.kind = "call" ->
                LET callee == Package[s.fn]
                    args == [i \in 1..Len(s.args) |-> Eval(s.args[i], st.env, 0, FALSE)]
                    cenv == [o \in {ObjKey(callee.params[i]) : i \in 1..Len(args)} |->
                                args[CHOOSE i \in 1..Len(args) : ObjKey(callee.params[i]) = o]]
                    r == RefStmt(callee.body, [st EXCEPT !.env = cenv], callee.name)
                IN [st EXCEPT !.trace = r.trace, !.yields = r.yields]
           [] s.kind = "return" ->
                [st EXCEPT !.halt = TRUE, !.trace = Append(@, Log(fn, s.id, 0))]
           [] s.kind = "block" -> RefList(s.list, 1, st, fn)
           [] s.kind = "if" ->
                IF Holds(s.cond, st.env, 0, FALSE) THEN RefStmt(s.body, st, fn)
                ELSE RefStmt(s.els, st, fn)
           [] s.kind = "for" -> RefLoop(s, RefStmt(s.init, st, fn), fn)
           [] s.kind = "switch" ->
                RefList(CaseFlow(s.body, SelectCase(s.body, s.tag, st.env, 0, FALSE)),
                        1, st, fn)
           [] OTHER -> st

RefList(l, i, st, fn) ==
    IF i > Len(l) THEN st ELSE RefList(l, i + 1, RefStmt(l[i], st, fn), fn)

RefLoop(s, st, fn) ==
    IF st.halt \/ ~Holds(s.cond, st.env, 0, FALSE) THEN st
    ELSE RefLoop(s, RefStmt(s.post, RefStmt(s.body, st, fn), fn), fn)

\* the environment a call starts with: each parameter bound to its argument
ParamEnv(params, args, byName) ==
    LET key(x) == IF byName THEN NameKey(x) ELSE ObjKey(x)
    IN [kk \in {key(params[i]) : i \in 1..Len(params)} |->
            args[CHOOSE i \in 1..Len(params) : key(params[i]) = kk]]

\* the named results of a call start with the zero value
ResultEnv(results, byName) ==
    [kk \in {(IF byName THEN NameKey(results[i]) ELSE ObjKey(results[i])) :
                i \in 1..Len(results)} |-> 0]

\* the arguments of a call of f by the driver: n for every parameter
EntryArgs(f, n) == [i \in 1..Len(Package[f].params) |-> n]

\* the uninterrupted run of function f on argument n
Reference(f, n) ==
    RefStmt(Package[f].body,
            [env |-> ParamEnv(Package[f].params, EntryArgs(f, n), FALSE)
                        @@ ResultEnv(Package[f].results, FALSE),
             trace |-> <<>>, yields |-> <<>>, halt |-> FALSE],
            f)


(***************************************************************************)
(* Compiler passes.                                                        *)
(***************************************************************************)
\* desugar: `for init; cond; post { body }` becomes `{ init; for ; cond; post
\* { body } }`, so that the init statement is a statement of a list and is
\* dispatched like any other.  The block it creates is a new node.
RECURSIVE desugar(_)
desugar(s) ==
    CASE s.kind = "block" ->
            [s EXCEPT !.list = [i \in 1..Len(s.list) |-> desugar(s.list[i])]]
      [] s.kind = "if" ->
            [s EXCEPT !.body = desugar(s.body), !.els = desugar(s.els)]
      [] s.kind = "for" ->
            LET loop == [s EXCEPT !.init = Nil, !.body = desugar(s.body)]
            IN IF s.init = Nil THEN loop ELSE Block(-s.id, <<s.init, loop>>)
      [] s.kind = "switch" ->
            [s EXCEPT !.body = [i \in 1..Len(s.body) |-> desugar(s.body[i])]]
      [] s.kind = "case" ->
            [s EXCEPT !.body = [i \in 1..Len(s.body) |-> desugar(s.body[i])]]
      [] OTHER -> s

\* The first ast.Inspect of compileFunction, in traversal order: the
\* left-hand identifier of every assignment statement of the body.
RECURSIVE scanAssigns(_), scanList(_, _)
scanAssigns(s) ==
    CASE s.kind = "assign" -> <<s.lhs>>
      [] s.kind = "block" -> scanList(s.list, 1)
      [] s.kind = "if" -> scanAssigns(s.body) \o scanAssigns(s.els)
      [] s.kind = "for" ->
            scanAssigns(s.init) \o scanAssigns(s.post) \o scanAssigns(s.body)
      [] s.kind = "switch" -> scanList(s.body, 1)
      [] s.kind = "case" -> scanList(s.body, 1)
      [] OTHER -> <<>>

scanList(l, i) ==
    IF i > Len(l) THEN <<>> ELSE scanAssigns(l[i]) \o scanList(l, i + 1)

\* SynthName without the count of the variables made so far
SynthNameSame(i) == "_v0"

\* "_v" + strconv.Itoa(len(varNames))
SynthName(i) == <<"_v0", "_v1", "_v2", "_v3", "_v4", "_v5">>[i + 1]

\* objectVars / varNames: one synthetic variable for each declaration that is
\* the target of an assignment, in order of first occurrence; an identifier
\* without an object is passed over.  The result lists the declarations;
\* the i-th (from 0) is renamed _v<i>.
RECURSIVE objectVars(_, _, _)
objectVars(ids, i, objs) ==
    IF i > Len(ids) THEN objs
    ELSE IF ids[i].obj = "nil" \/ \E j \in 1..Len(objs) : objs[j] = ids[i].obj
         THEN objectVars(ids, i + 1, objs)
         ELSE objectVars(ids, i + 1, Append(objs, ids[i].obj))

\* the replacement name of an identifier, or its own name when it has none
replaceIdent(x, objs) ==
    IF \E j \in 1..Len(objs) : objs[j] = x.obj
    THEN [x EXCEPT !.name = SynthName((CHOOSE j \in 1..Len(objs) : objs[j] = x.obj) - 1)]
    ELSE x

RECURSIVE renameExpr(_, _)
renameExpr(e, objs) ==
    CASE e = Nil -> e
      [] e.k = "var" -> [e EXCEPT !.x = replaceIdent(e.x, objs)]
      [] e.k = "bin" ->
            [e EXCEPT !.a = renameExpr(e.a, objs), !.b = renameExpr(e.b, objs)]
      [] OTHER -> e

\* The two ast.Inspect passes applied to the tree: every := becomes =, and
\* every identifier of a renamed declaration gets its synthetic name.
RECURSIVE renameStmt(_, _)
renameStmt(s, objs) ==
    LET each(l) == [i \in 1..Len(l) |-> renameStmt(l[i], objs)]
    IN CASE s.kind = "assign" ->
                [s EXCEPT !.tok = "assign",
                          !.lhs = replaceIdent(s.lhs, objs),
                          !.rhs = renameExpr(s.rhs, objs)]
         [] s.kind = "incdec" -> [s EXCEPT !.x = replaceIdent(s.x, objs)]
         [] s.kind = "yield" -> [s EXCEPT !.arg = renameExpr(s.arg, objs)]
         [] s.kind = "call" ->
                [s EXCEPT !.args = [i \in 1..Len(s.args) |-> renameExpr(s.args[i], objs)]]
         [] s.kind = "block" -> [s EXCEPT !.list = each(s.list)]
         [] s.kind = "if" ->
                [s EXCEPT !.cond = renameExpr(s.cond, objs),
                          !.body = renameStmt(s.body, objs),
                          !.els = renameStmt(s.els, objs)]
         [] s.kind = "for" ->
                [s EXCEPT !.init = renameStmt(s.init, objs),
                          !.cond = renameExpr(s.cond, objs),
                          !.post = renameStmt(s.post, objs),
                          !.body = renameStmt(s.body, objs)]
         [] s.kind = "switch" ->
                [s EXCEPT !.tag = renameExpr(s.tag, objs), !.body = each(s.body)]
         [] s.kind = "case" ->
                [s EXCEPT !.list = [i \in 1..Len(s.list) |-> renameExpr(s.list[i], objs)],
                          !.body = each(s.body)]
         [] OTHER -> s

\* trackSpans: number the statements depth-first in source order.  A leaf
\* takes one counter value; a statement with children spans its children.
RECURSIVE trackSpans0(_, _, _), trackList(_, _, _, _)
trackSpans0(s, spans, nextID) ==
    LET r == CASE s.kind = "block" -> trackList(s.list, 1, spans, nextID)
               [] s.kind = "if" ->
                    LET b == trackSpans0(s.body, spans, nextID)
                    IN IF s.els = Nil THEN b ELSE trackSpans0(s.els, b.spans, b.next)
               [] s.kind = "for" -> trackSpans0(s.body, spans, nextID)
               [] s.kind = "switch" -> trackList(s.body, 1, spans, nextID)
               [] s.kind = "case" -> trackList(s.body, 1, spans, nextID)
               [] OTHER -> [spans |-> spans, next |-> nextID + 1]
    IN [spans |-> (s.id :> [start |-> nextID, end |-> r.next]) @@ r.spans,
        next |-> r.next]

trackList(l, i, spans, nextID) ==
    IF i > Len(l) THEN [spans |-> spans, next |-> nextID]
    ELSE LET r == trackSpans0(l[i], spans, nextID)
         IN trackList(l, i + 1, r.spans, r.next)

trackSpans(s) == trackSpans0(s, <<>>, 0).spans

\* unnestBlocks: a block holding exactly one statement is replaced by it
RECURSIVE unnestBlocks(_)
unnestBlocks(s) ==
    IF s.kind = "block" /\ Len(s.list) = 1 THEN unnestBlocks(s.list[1]) ELSE s

RECURSIVE compileStatement(_, _), compileDispatch(_, _)

\* compileFor with the reset taken from the wrong end of the loop's span
compileForResetEnd(s, spans) ==
    LET body == compileStatement(s.body, spans)
    IN [s EXCEPT !.body = [body EXCEPT !.list = Append(@, SetIP(spans[s.id].end))]]

\* the case of a for statement: the body is compiled and followed by the
\* reset  _f.IP = <start of the loop's span>
compileFor(s, spans) ==
    LET body == compileStatement(s.body, spans)
    IN [s EXCEPT !.body = [body EXCEPT !.list = Append(@, SetIP(spans[s.id].start))]]

\* the case of an if statement: only the body is compiled
compileIf(s, spans) == [s EXCEPT !.body = compileStatement(s.body, spans)]

\* the cases of a block and of a case clause: a list of one statement is
\* compiled in place, a longer one becomes a dispatch
compileList(l, spans) ==
    CASE Len(l) = 1 -> <<unnestBlocks(compileStatement(l[1], spans))>>
      [] Len(l) > 1 -> <<compileDispatch(l, spans)>>
      [] OTHER -> l

compileStatement(s, spans) ==
    CASE s.kind = "block" -> [s EXCEPT !.list = compileList(s.list, spans)]
      [] s.kind = "if" -> compileIf(s, spans)
      [] s.kind = "for" -> compileFor(s, spans)
      [] s.kind = "switch" ->
            [s EXCEPT !.body = [i \in 1..Len(s.body) |-> compileStatement(s.body[i], spans)]]
      [] s.kind = "case" -> [s EXCEPT !.body = compileList(s.body, spans)]
      [] OTHER -> s

\* dispatchCaseBody without the instruction-pointer update
dispatchCaseBodyNoIP(l, i, spans) ==
    <<unnestBlocks(compileStatement(l[i], spans))>>
        \o (IF i < Len(l) THEN <<Fallthrough>> ELSE <<>>)

\* the body of the i-th case of a dispatch: the compiled statement and, unless
\* it is the last,  _f.IP = <end of its span>; fallthrough
dispatchCaseBody(l, i, spans) ==
    <<unnestBlocks(compileStatement(l[i], spans))>>
        \o (IF i < Len(l) THEN <<SetIP(spans[l[i].id].end), Fallthrough>> ELSE <<>>)

\* dispatchGuard with <= in place of <
dispatchGuardLE(l, i, spans) == IPLess(spans[l[i].id].end + 1)

\* the guard of the i-th case of a dispatch:  _f.IP < <end of its span>
dispatchGuard(l, i, spans) == IPLess(spans[l[i].id].end)

\* compileDispatch with the instruction-pointer update after every statement,
\* the last included
compileDispatchAll(l, spans) ==
    Switch(0, Nil,
           [i \in 1..Len(l) |->
                CaseClause(0, <<IPLess(spans[l[i].id].end)>>,
                    <<unnestBlocks(compileStatement(l[i], spans)), SetIP(spans[l[i].id].end)>>
                        \o (IF i < Len(l) THEN <<Fallthrough>> ELSE <<>>))])

compileDispatch(l, spans) ==
    Switch(0, Nil,
           [i \in 1..Len(l) |->
                CaseClause(0, <<dispatchGuard(l, i, spans)>>, dispatchCaseBody(l, i, spans))])

\* saveAndRestoreNames: named parameters, then named results (blank ones
\* skipped), then the synthetic variables
saveAndRestoreNames(fn, varNames) ==
    SelectSeq([i \in 1..Len(fn.params) |-> fn.params[i].name], LAMBDA nm : nm # "_")
        \o SelectSeq([i \in 1..Len(fn.results) |-> fn.results[i].name], LAMBDA nm : nm # "_")
        \o varNames

\* p.TypesInfo.TypeOf(name): every variable of the programs above is an int
TypeOf(name) == "int"

\* restoreStmts: name = _f.Get(i).(T), for each planned name, i from 0
restoreStmts(names) ==
    [i \in 1..Len(names) |-> [slot |-> i - 1, name |-> names[i], type |-> TypeOf(names[i])]]

\* saveStmts with the names taken in the opposite order
saveStmtsSwapped(names) ==
    [i \in 1..Len(names) |-> [slot |-> i - 1, name |-> names[Len(names) + 1 - i]]]

\* saveStmts: _f.Set(i, name), for each planned name, i from 0
saveStmts(names) == [i \in 1..Len(names) |-> [slot |-> i - 1, name |-> names[i]]]

\* the generated function: its parameters, the variables declared upfront,
\* the restore block, the deferred save block and the compiled body
compileFunction(fn) ==
    LET sugarfree == desugar(fn.body)
        objs == objectVars(scanAssigns(sugarfree), 1, <<>>)
        varNames == [i \in 1..Len(objs) |-> SynthName(i - 1)]
        body == renameStmt(sugarfree, objs)
        names == saveAndRestoreNames(fn, varNames)
        spans == trackSpans(body)
    IN [name |-> fn.name,
        params |-> fn.params,
        results |-> fn.results,
        objs |-> objs,
        vars |-> varNames,
        restore |-> restoreStmts(names),
        save |-> saveStmts(names),
        spans |-> spans,
        body |-> compileStatement(body, spans).list]


\* the generated file: every colored function of the package, compiled
Generated == [f \in FuncNames |-> compileFunction(Package[f])]

(***************************************************************************)
(* Running the generated code.                                             *)
(*                                                                         *)
(* entry, arg  the coroutine: its entry function and the argument it is    *)
(*             started with (the same on every resumption)                 *)
(* phase       "ready", "running", "suspended" or "done"                   *)
(* acts        the Go call stack: one activation per call in progress,     *)
(*             with its variables (env), the statements it has still to    *)
(*             run (ctl) and its place in the prologue (pc)                *)
(* frames, fp  the context's frame stack and the index of the frame of     *)
(*             the innermost call that has pushed                          *)
(* unwinding   the context is unwinding the stack for a suspension         *)
(* resuming    the context is rewinding: the next Yield reached returns    *)
(* yielded     the values received from the coroutine, in order            *)
(* trace       the leaf statements executed, with the value each computed  *)
(* calls       the number of calls made into the coroutine                 *)
(* pending     the Yield that caused the last suspension                   *)
(* rejoined    the Yield that returned in the current resumption, and the  *)
(*             one that had suspended                                      *)
(* pushes, exits  calls that ran Push, calls whose deferred handler ran    *)
(***************************************************************************)
VARIABLES entry, arg, phase, acts, frames, fp, unwinding, resuming, yielded,
          trace, calls, pending, rejoined, pushes, exits

(***************************************************************************)
(* The compiler at work (compile, colorFunctions, compilePackage).         *)
(*                                                                         *)
(* prog        the loaded program: its call graph and the signature of     *)
(*             each instantiation of coroutine.Yield                       *)
(* colors      the color given to each function so far                     *)
(* work        the colored nodes whose callers are still to be colored     *)
(* cerr        the error of colorFunctions                                 *)
(* cphase      how far compile has got                                     *)
(* compiled    the functions compile hands to compilePackage               *)
(* decl        the function declaration handed to the statement validator  *)
(* gate        the validation pass applied to it                           *)
(* verr        the error the validation pass returned                      *)
(* pkgs        the colored functions of each package of a run              *)
(* left        the packages compile has not yet handed to compilePackage   *)
(* files       the packages whose output file has been created             *)
(* derr        the error compile returned                                  *)
(***************************************************************************)
VARIABLES prog, colors, work, cerr, cphase, compiled,
          decl, gate, verr,
          pkgs, left, files, derr

(***************************************************************************)
(* One call of compilePackage, declaration by declaration.                 *)
(*                                                                         *)
(* conf        the compiler's options (buildTags)                          *)
(* src         the package: its name and the declarations of its files     *)
(* gen         the ast.File being generated                                *)
(* epc         the position of compilePackage: the declaration it is at,   *)
(*             the declarations it has validated, the error it returned    *)
(* out         the text written to the output file, line by line           *)
(***************************************************************************)
VARIABLES conf, src, gen, epc, out

(***************************************************************************)
(* The deserializer (package types, serde.go).                             *)
(*                                                                         *)
(* ptrs        Deserializer.ptrs: the pointer stored under each ID         *)
(* stores      the calls of store that returned, in order                  *)
(* spanic      the call of store that panicked, if any                     *)
(* input       the buffer handed to Deserialize                            *)
(* result      what Deserialize did with it                                *)
(***************************************************************************)
VARIABLES ptrs, stores, spanic, input, result

\* the variables of the running coroutine
rvars == <<entry, arg, phase, acts, frames, fp, unwinding, resuming, yielded,
           trace, calls, pending, rejoined, pushes, exits>>

\* the variables of the compiler
\* the variables of one call of compilePackage
evars == <<conf, src, gen, epc, out>>

\* the variables of the deserializer
svars == <<ptrs, stores, spanic, input, result>>

\* the variables of the compiler and of the deserializer
cvars == <<prog, colors, work, cerr, cphase, compiled, decl, gate, verr,
           pkgs, left, files, derr, evars, svars>>

vars == <<rvars, cvars>>

\* compile is not coloring
ColorIdle ==
    /\ prog = [edges |-> {}, sigs |-> <<>>]
    /\ colors = <<>>
    /\ work = {}
    /\ cerr = ""
    /\ cphase = "idle"
    /\ compiled = {}

\* no declaration is being validated
ValidIdle == decl = <<>> /\ gate = "" /\ verr = ""

\* no run of compile over packages
DriverIdle == pkgs = <<>> /\ left = {} /\ files = {} /\ derr = ""

EmitIdle == conf = <<>> /\ src = <<>> /\ gen = <<>> /\ epc = <<>> /\ out = <<>>

SerdeIdle ==
    ptrs = <<>> /\ stores = <<>> /\ spanic = <<>> /\ input = <<>> /\ result = <<>>

None == [fn |-> "", id |-> 0]

NoRejoin == [got |-> None, want |-> None]

Activation(f, args) ==
    [fn |-> f,
     env |-> ParamEnv(Generated[f].params, args, TRUE)
                @@ ResultEnv(Generated[f].results, TRUE),
     args |-> args,
     ctl |-> <<>>,
     pc |-> "push",
     f |-> 0,
     ip0 |-> 0,
     retrieved |-> FALSE,
     started |-> FALSE,
     log |-> <<>>]

Top == acts[Len(acts)]

SetTop(a) == [acts EXCEPT ![Len(acts)] = a]

Running == phase = "running" /\ Len(acts) > 0

InBody == Running /\ Top.pc = "body" /\ Top.ctl # <<>>

\* the statement the innermost call executes next
Cur == Head(Top.ctl)

CurIP == frames[Top.f].IP

\* the innermost call, past the statement it has just executed
Advance(a) == [a EXCEPT !.ctl = Tail(@), !.started = TRUE]

Init ==
    /\ entry \in FuncNames
    /\ arg \in 0..MaxN
    /\ phase = "ready"
    /\ acts = <<>>
    /\ frames = <<>>
    /\ fp = 0
    /\ unwinding = FALSE
    /\ resuming = FALSE
    /\ yielded = <<>>
    /\ trace = <<>>
    /\ calls = 0
    /\ pending = None
    /\ rejoined = NoRejoin
    /\ pushes = 0
    /\ exits = 0
    /\ ColorIdle /\ ValidIdle /\ DriverIdle /\ EmitIdle /\ SerdeIdle

\* the driver starts the coroutine: the first call of the entry function
Call ==
    /\ phase = "ready"
    /\ phase' = "running"
    /\ acts' = <<Activation(entry, EntryArgs(entry, arg))>>
    /\ calls' = 1
    /\ UNCHANGED <<cvars, entry, arg, frames, fp, unwinding, resuming, yielded, trace,
                   pending, rejoined, pushes, exits>>

\* the driver resumes the suspended coroutine: a fresh call of the entry
\* function with the same context, whose frames are those left in place
Resume ==
    /\ phase = "suspended"
    /\ calls < MaxCalls
    /\ phase' = "running"
    /\ acts' = <<Activation(entry, EntryArgs(entry, arg))>>
    /\ calls' = calls + 1
    /\ fp' = 0
    /\ unwinding' = FALSE
    /\ resuming' = TRUE
    /\ rejoined' = NoRejoin
    /\ UNCHANGED <<cvars, entry, arg, frames, yielded, trace, pending, pushes, exits>>

\* Context.Push: the frame above the current one, allocated when the stack
\* has none there.  A new frame has instruction pointer zero and no slots.
PushFrame(fs, p) ==
    IF p = Len(fs) THEN Append(fs, [IP |-> 0, slots |-> <<>>, types |-> <<>>, saved |-> <<>>]) ELSE fs

\* _c := coroutine.LoadContext[R, S](); _f := _c.Push(); var _v0 T0; ...
Push ==
    /\ Running /\ Top.pc = "push"
    /\ frames' = PushFrame(frames, fp)
    /\ fp' = fp + 1
    /\ acts' = SetTop([Top EXCEPT
            !.pc = "restore",
            !.f = fp + 1,
            !.ip0 = frames'[fp + 1].IP,
            !.retrieved = (fp < Len(frames)),
            !.env = [nm \in {Generated[Top.fn].vars[i] :
                                i \in 1..Len(Generated[Top.fn].vars)} |-> 0] @@ @])
    /\ pushes' = pushes + 1
    /\ UNCHANGED <<cvars, entry, arg, phase, unwinding, resuming, yielded, trace, calls,
                   pending, rejoined, exits>>

\* the condition of the generated restore block:  _f.IP > 0
restoreCond(frame) == frame.IP > 0

\* the variables after the statements  name = _f.Get(i).(T)  of stmts
RECURSIVE runRestore(_, _, _, _)
runRestore(stmts, i, slots, env) ==
    IF i > Len(stmts) THEN env
    ELSE runRestore(stmts, i + 1, slots, [env EXCEPT ![stmts[i].name] = slots[stmts[i].slot]])

\* the slots after the statements  _f.Set(i, name)  of stmts
RECURSIVE runSave(_, _, _, _)
runSave(stmts, i, slots, env) ==
    IF i > Len(stmts) THEN slots
    ELSE runSave(stmts, i + 1, (stmts[i].slot :> env[stmts[i].name]) @@ slots, env)

\* the dynamic types of the slots after the statements  _f.Set(i, name)  of
\* stmts: a slot holds an interface value whose type is that of the variable
RECURSIVE runSaveTypes(_, _, _)
runSaveTypes(stmts, i, types) ==
    IF i > Len(stmts) THEN types
    ELSE runSaveTypes(stmts, i + 1, (stmts[i].slot :> TypeOf(stmts[i].name)) @@ types)

\* a type assertion that accepts a value of any type
typeAssertAny(dyn, T) == TRUE

\* x.(T), the one-result form: it holds when the dynamic type of x is T and
\* panics otherwise
typeAssert(dyn, T) == dyn = T

\* every  _f.Get(i).(T)  of stmts holds for the frame; a slot that was never
\* set holds nil, which no assertion accepts
restoreTypesOK(stmts, frame) ==
    \A i \in 1..Len(stmts) :
        /\ stmts[i].slot \in DOMAIN frame.types
        /\ typeAssert(frame.types[stmts[i].slot], stmts[i].type)

\* if _f.IP > 0 { restore }: taken; then the handler is deferred and the body begins
Restore ==
    /\ Running /\ Top.pc = "restore"
    /\ restoreCond(frames[Top.f])
    /\ restoreTypesOK(Generated[Top.fn].restore, frames[Top.f])
    /\ acts' = SetTop([Top EXCEPT
            !.pc = "body",
            !.ctl = Generated[Top.fn].body,
            !.env = runRestore(Generated[Top.fn].restore, 1, frames[Top.f].slots, @)])
    /\ UNCHANGED <<cvars, entry, arg, phase, frames, fp, unwinding, resuming, yielded, trace,
                   calls, pending, rejoined, pushes, exits>>

\* if _f.IP > 0 { restore }: not taken
SkipRestore ==
    /\ Running /\ Top.pc = "restore"
    /\ ~restoreCond(frames[Top.f])
    /\ acts' = SetTop([Top EXCEPT !.pc = "body", !.ctl = Generated[Top.fn].body])
    /\ UNCHANGED <<cvars, entry, arg, phase, frames, fp, unwinding, resuming, yielded, trace,
                   calls, pending, rejoined, pushes, exits>>

\* the innermost call after leaf statement s computed v
Executed(a, s, v) == [Advance(a) EXCEPT !.log = Append(@, s.id)]

\* x = e
ExecAssign ==
    /\ InBody /\ Cur.kind = "assign"
    /\ LET v == Eval(Cur.rhs, Top.env, CurIP, TRUE)
       IN /\ acts' = SetTop([Executed(Top, Cur, v) EXCEPT !.env[NameKey(Cur.lhs)] = v])
          /\ trace' = Append(trace, Log(Top.fn, Cur.id, v))
    /\ UNCHANGED <<cvars, entry, arg, phase, frames, fp, unwinding, resuming, yielded,
                   calls, pending, rejoined, pushes, exits>>

\* x++, x--
ExecIncDec ==
    /\ InBody /\ Cur.kind = "incdec"
    /\ LET v == Top.env[NameKey(Cur.x)] + Step1(Cur.tok)
       IN /\ acts' = SetTop([Executed(Top, Cur, v) EXCEPT !.env[NameKey(Cur.x)] = v])
          /\ trace' = Append(trace, Log(Top.fn, Cur.id, v))
    /\ UNCHANGED <<cvars, entry, arg, phase, frames, fp, unwinding, resuming, yielded,
                   calls, pending, rejoined, pushes, exits>>

\* coroutine.Yield(e) while running forward: the value is handed to the
\* driver and the stack unwinds (every deferred handler runs)
YieldSuspend ==
    /\ InBody /\ Cur.kind = "yield"
    /\ ~resuming
    /\ LET v == Eval(Cur.arg, Top.env, CurIP, TRUE)
       IN /\ yielded' = Append(yielded, v)
          /\ trace' = Append(trace, Log(Top.fn, Cur.id, v))
          /\ pending' = [fn |-> Top.fn, id |-> Cur.id]
    /\ unwinding' = TRUE
    /\ acts' = SetTop([Top EXCEPT !.ctl = <<>>, !.started = TRUE,
                                  !.log = Append(@, Cur.id)])
    /\ UNCHANGED <<cvars, entry, arg, phase, frames, fp, resuming, calls, rejoined,
                   pushes, exits>>

\* coroutine.Yield(e) while rewinding: the call returns the driver's value
\* and the coroutine runs forward again
YieldReturn ==
    /\ InBody /\ Cur.kind = "yield"
    /\ resuming
    /\ resuming' = FALSE
    /\ rejoined' = [got |-> [fn |-> Top.fn, id |-> Cur.id], want |-> pending]
    /\ acts' = SetTop([Advance(Top) EXCEPT !.log = Append(@, Cur.id)])
    /\ UNCHANGED <<cvars, entry, arg, phase, frames, fp, unwinding, yielded, trace, calls,
                   pending, pushes, exits>>

\* f(args): a call of a colored function of the package
ExecCall ==
    /\ InBody /\ Cur.kind = "call"
    /\ LET args == [i \in 1..Len(Cur.args) |-> Eval(Cur.args[i], Top.env, CurIP, TRUE)]
       IN acts' = Append(SetTop(Advance(Top)), Activation(Cur.fn, args))
    /\ UNCHANGED <<cvars, entry, arg, phase, frames, fp, unwinding, resuming, yielded, trace,
                   calls, pending, rejoined, pushes, exits>>

\* return
ExecReturn ==
    /\ InBody /\ Cur.kind = "return"
    /\ acts' = SetTop([Executed(Top, Cur, 0) EXCEPT !.ctl = <<>>])
    /\ trace' = Append(trace, Log(Top.fn, Cur.id, 0))
    /\ UNCHANGED <<cvars, entry, arg, phase, frames, fp, unwinding, resuming, yielded,
                   calls, pending, rejoined, pushes, exits>>

\* { ... }
ExecBlock ==
    /\ InBody /\ Cur.kind = "block"
    /\ acts' = SetTop([Top EXCEPT !.ctl = Cur.list \o Tail(@)])
    /\ UNCHANGED <<cvars, entry, arg, phase, frames, fp, unwinding, resuming, yielded, trace,
                   calls, pending, rejoined, pushes, exits>>

\* if cond { ... } else { ... }
ExecIf ==
    /\ InBody /\ Cur.kind = "if"
    /\ acts' = SetTop([Top EXCEPT !.ctl =
            (IF Holds(Cur.cond, Top.env, CurIP, TRUE) THEN <<Cur.body>>
             ELSE IF Cur.els = Nil THEN <<>> ELSE <<Cur.els>>) \o Tail(@)])
    /\ UNCHANGED <<cvars, entry, arg, phase, frames, fp, unwinding, resuming, yielded, trace,
                   calls, pending, rejoined, pushes, exits>>

\* for ; cond; post { ... }: one test of the condition; when it holds the
\* body, the post statement and the loop again are what remains to run
ExecFor ==
    /\ InBody /\ Cur.kind = "for"
    /\ acts' = SetTop([Top EXCEPT !.ctl =
            (IF Holds(Cur.cond, Top.env, CurIP, TRUE)
             THEN <<Cur.body>> \o (IF Cur.post = Nil THEN <<>> ELSE <<Cur.post>>) \o <<Cur>>
             ELSE <<>>) \o Tail(@)])
    /\ UNCHANGED <<cvars, entry, arg, phase, frames, fp, unwinding, resuming, yielded, trace,
                   calls, pending, rejoined, pushes, exits>>

\* switch tag { case ...: ... }, and the generated dispatch  switch { case
\* _f.IP < e: ...; fallthrough ... }
ExecSwitch ==
    /\ InBody /\ Cur.kind = "switch"
    /\ acts' = SetTop([Top EXCEPT !.ctl =
            CaseFlow(Cur.body, SelectCase(Cur.body, Cur.tag, Top.env, CurIP, TRUE))
                \o Tail(@)])
    /\ UNCHANGED <<cvars, entry, arg, phase, frames, fp, unwinding, resuming, yielded, trace,
                   calls, pending, rejoined, pushes, exits>>

\* _f.IP = v
ExecSetIP ==
    /\ InBody /\ Cur.kind = "setip"
    /\ frames' = [frames EXCEPT ![Top.f].IP = Cur.val]
    /\ acts' = SetTop([Top EXCEPT !.ctl = Tail(@)])
    /\ UNCHANGED <<cvars, entry, arg, phase, fp, unwinding, resuming, yielded, trace,
                   calls, pending, rejoined, pushes, exits>>

\* the call stack once the innermost call has gone: a caller goes on after
\* the call, or, when the stack is unwinding, runs its own handler next
Unwound(panicking) ==
    LET rest == SubSeq(acts, 1, Len(acts) - 1)
    IN IF panicking /\ Len(rest) > 0
       THEN [rest EXCEPT ![Len(rest)].ctl = <<>>]
       ELSE rest

AtExit == Running /\ Top.pc = "body" /\ Top.ctl = <<>>

\* the deferred handler, _c.Unwinding() true: _f.Set(i, name) for every
\* planned name; the frame stays in place
SaveFrame ==
    /\ AtExit
    /\ unwinding
    /\ frames' = [frames EXCEPT
            ![Top.f].slots = runSave(Generated[Top.fn].save, 1, @, Top.env),
            ![Top.f].types = runSaveTypes(Generated[Top.fn].save, 1, @),
            ![Top.f].saved = Top.env]
    /\ acts' = Unwound(TRUE)
    /\ phase' = IF Len(acts) = 1 THEN "suspended" ELSE phase
    /\ exits' = exits + 1
    /\ UNCHANGED <<cvars, entry, arg, fp, unwinding, resuming, yielded, trace, calls,
                   pending, rejoined, pushes>>

\* Context.Pop: the current frame is discarded
PopFrame(fs, f) == SubSeq(fs, 1, f - 1)

\* a deferred handler that leaves the frame of the returning call in place
PopKeepsFrame ==
    /\ AtExit
    /\ ~unwinding
    /\ fp' = Top.f - 1
    /\ acts' = Unwound(FALSE)
    /\ phase' = IF Len(acts) = 1 THEN "done" ELSE phase
    /\ exits' = exits + 1
    /\ UNCHANGED <<cvars, entry, arg, frames, unwinding, resuming, yielded, trace, calls,
                   pending, rejoined, pushes>>

\* the deferred handler, _c.Unwinding() false: _c.Pop()
Pop ==
    /\ AtExit
    /\ ~unwinding
    /\ frames' = PopFrame(frames, Top.f)
    /\ fp' = Top.f - 1
    /\ acts' = Unwound(FALSE)
    /\ phase' = IF Len(acts) = 1 THEN "done" ELSE phase
    /\ exits' = exits + 1
    /\ UNCHANGED <<cvars, entry, arg, unwinding, resuming, yielded, trace, calls,
                   pending, rejoined, pushes>>

Next ==
    \/ Call
    \/ Resume
    \/ Push
    \/ Restore
    \/ SkipRestore
    \/ ExecAssign
    \/ ExecIncDec
    \/ YieldSuspend
    \/ YieldReturn
    \/ ExecCall
    \/ ExecReturn
    \/ ExecBlock
    \/ ExecIf
    \/ ExecFor
    \/ ExecSwitch
    \/ ExecSetIP
    \/ SaveFrame
    \/ Pop

Spec == Init /\ [][Next]_vars

\* the driver keeps calling and every call runs to its exit
FairSpec == Spec /\ WF_vars(Next)

\* the types a slot can hold
Types == {"int", "string"}

StaleFrame == \E f \in 1..Len(frames) : \E s \in DOMAIN frames[f].types :
                 frames[f].types[s] # "int"

\* Between two calls of the driver the stored frames go stale: one slot of
\* one frame now holds a value of another type (the frames were written by
\* another build of the function, or were damaged in storage).
Corrupt ==
    /\ phase = "suspended"
    /\ calls < MaxCalls
    /\ ~StaleFrame
    /\ \E f \in 1..Len(frames) : \E s \in DOMAIN frames[f].types :
         \E ty \in Types \ {frames[f].types[s]} :
            frames' = [frames EXCEPT ![f].types[s] = ty]
    /\ UNCHANGED <<cvars, entry, arg, phase, acts, fp, unwinding, resuming, yielded, trace,
                   calls, pending, rejoined, pushes, exits>>

\* if _f.IP > 0 { restore }: taken, and a type assertion fails.  The panic
\* leaves the call before its handler is deferred; nothing of the call runs
\* after it and the run ends.
RestoreFail ==
    /\ Running /\ Top.pc = "restore"
    /\ restoreCond(frames[Top.f])
    /\ ~restoreTypesOK(Generated[Top.fn].restore, frames[Top.f])
    /\ acts' = SetTop([Top EXCEPT !.pc = "panic"])
    /\ phase' = "failed"
    /\ UNCHANGED <<cvars, entry, arg, frames, fp, unwinding, resuming, yielded, trace,
                   calls, pending, rejoined, pushes, exits>>

StaleNext ==
    \/ Next
    \/ Corrupt
    \/ RestoreFail

\* the coroutine run over frames that may go stale between two calls
StaleSpec == Init /\ [][StaleNext]_vars


(***************************************************************************)
(* Properties.                                                             *)
(***************************************************************************)
IsPrefix(a, b) == Len(a) <= Len(b) /\ SubSeq(b, 1, Len(a)) = a

\* the uninterrupted run of every coroutine of the model
RefTable == [f \in FuncNames |-> [n \in 0..MaxN |-> Reference(f, n)]]

Ref == RefTable[entry][arg]

IsLeaf(s) == s.kind \in {"assign", "incdec", "yield", "return"}

\* the planned names of a function: named parameters, named results, then
\* locals
PlannedNames(f) ==
    SelectSeq([i \in 1..Len(Package[f].params) |-> Package[f].params[i].name],
              LAMBDA nm : nm # "_")
        \o SelectSeq([i \in 1..Len(Package[f].results) |-> Package[f].results[i].name],
                     LAMBDA nm : nm # "_")
        \o Generated[f].vars

RECURSIVE HasLoop(_)
HasLoop(s) ==
    CASE s.kind = "for" -> TRUE
      [] s.kind = "block" -> \E i \in 1..Len(s.list) : HasLoop(s.list[i])
      [] s.kind = "if" -> HasLoop(s.body) \/ HasLoop(s.els)
      [] s.kind = "switch" -> \E i \in 1..Len(s.body) : HasLoop(s.body[i])
      [] s.kind = "case" -> \E i \in 1..Len(s.body) : HasLoop(s.body[i])
      [] OTHER -> FALSE

\* the ids of the Yield statements of s that lie inside the body of a
\* conditional or of a loop
RECURSIVE BodyYields(_, _)
BodyYields(s, inside) ==
    CASE s.kind = "yield" -> IF inside THEN {s.id} ELSE {}
      [] s.kind = "block" -> UNION {BodyYields(s.list[i], inside) : i \in 1..Len(s.list)}
      [] s.kind = "if" -> BodyYields(s.body, TRUE) \cup BodyYields(s.els, TRUE)
      [] s.kind = "for" -> BodyYields(s.body, TRUE)
      [] s.kind = "switch" -> UNION {BodyYields(s.body[i], inside) : i \in 1..Len(s.body)}
      [] s.kind = "case" -> UNION {BodyYields(s.body[i], inside) : i \in 1..Len(s.body)}
      [] OTHER -> {}

\* C1: running the compiled function through all of its suspend/resume
\* cycles executes the same leaf statements, computing the same values, in
\* the same order as the source function run once without interruption: the
\* statements executed so far are always a prefix of the uninterrupted run,
\* and a completed coroutine has executed all of it and yielded its values.
C1_RefinesOriginal ==
    /\ IsPrefix(trace, Ref.trace)
    /\ phase = "done" => trace = Ref.trace /\ yielded = Ref.yields

C3_Squares ==
    entry = "SquareGenerator" =>
        /\ yielded = [i \in 1..Len(yielded) |-> i * i]
        /\ Len(yielded) <= arg
        /\ phase = "suspended" => Len(yielded) = calls
        /\ phase = "done" => Len(yielded) = arg
        /\ \A a \in {acts[i] : i \in 1..Len(acts)} :
              (a.retrieved /\ a.pc = "body") =>
                  /\ IsPrefix(a.log, <<6, 4, 6>>)
                  /\ a.env[SynthName(0)] = IF Len(a.log) >= 2 THEN calls ELSE calls - 1

C3_Witness ==
    /\ entry = "SquareGenerator" /\ arg = 3
    /\ phase = "done"
    /\ yielded = <<1, 4, 9>>

\* C4: immediately after a call is resumed, at whatever instruction pointer
\* (zero included) it had suspended, every parameter and local has the value
\* it had at the moment of suspension.
C4_RoundTrip ==
    \A a \in {acts[i] : i \in 1..Len(acts)} :
        (a.retrieved /\ a.pc = "body" /\ ~a.started) => a.env = frames[a.f].saved

\* C5: a frame left in place by a suspension has an instruction pointer
\* greater than zero, so the restore block runs on the next call.
C5_ResumptionRecognized ==
    /\ phase = "suspended" => \A i \in 1..Len(frames) : frames[i].IP > 0
    /\ \A a \in {acts[i] : i \in 1..Len(acts)} :
          (a.retrieved /\ a.pc = "body") => a.ip0 > 0

\* C6: every call that has pushed leaves through its deferred handler, which
\* runs once and does exactly one of two things: when the context is
\* unwinding it writes every planned name's value at its slot index and
\* leaves all frames in place; otherwise it pops the call's frame, the top
\* one, and writes nothing.
C6_HandlerStep ==
    (exits' # exits \/ Len(acts') < Len(acts)) =>
        /\ AtExit
        /\ exits' = exits + 1
        /\ acts' = Unwound(unwinding)
        /\ IF unwinding
           THEN LET names == PlannedNames(Top.fn)
                    after == frames'[Top.f]
                IN /\ Len(frames') = Len(frames)
                   /\ \A i \in 1..Len(frames) : i # Top.f => frames'[i] = frames[i]
                   /\ after.IP = frames[Top.f].IP
                   /\ DOMAIN after.slots = 0..(Len(names) - 1)
                   /\ \A i \in 1..Len(names) : after.slots[i - 1] = Top.env[names[i]]
           ELSE /\ Top.f = Len(frames)
                /\ frames' = SubSeq(frames, 1, Len(frames) - 1)

C6_HandlerCount ==
    /\ pushes = exits + Cardinality({i \in 1..Len(acts) : acts[i].pc # "push"})
    /\ phase \in {"suspended", "done"} => exits = pushes

C6_ExitHandler == [][C6_HandlerStep]_vars /\ []C6_HandlerCount

\* EarlyReturn(1) has suspended once (handler saved) and then run off its end
\* (handler popped)
C6_Witness ==
    /\ entry = "EarlyReturn" /\ arg = 1
    /\ phase = "done" /\ exits = 2 /\ frames = <<>>
    /\ yielded = <<1>>

\* a loop is about to start an iteration other than the one a resumption
\* re-enters
IterationStart ==
    /\ InBody /\ Cur.kind = "for"
    /\ Holds(Cur.cond, Top.env, CurIP, TRUE)
    /\ ~resuming

LoopStart == Generated[Top.fn].spans[Cur.id].start

\* the body of the loop is a dispatch, and it selects its first case
FromFirstStatement ==
    LET b == Cur.body.list
    IN (Len(b) > 0 /\ b[1].kind = "switch" /\ b[1].tag = Nil) =>
            SelectCase(b[1].body, Nil, Top.env, CurIP, TRUE) = 1

C8_NoReexecution ==
    \A i, j \in 1..Len(trace) :
        (i < j /\ trace[i].fn = trace[j].fn /\ trace[i].id = trace[j].id)
            => HasLoop(Package[trace[i].fn].body)

\* C9: a function suspended at a Yield inside the body of a conditional or of
\* a loop resumes there: the Yield that returns in the resumed call is the
\* one that suspended, and the call does not end without reaching it.
C9_ResumesWhereStopped ==
    (pending.fn # "" /\ pending.id \in BodyYields(Package[pending.fn].body, FALSE)) =>
        /\ rejoined.want = pending => rejoined.got = pending
        /\ ~(resuming /\ phase = "done")

\* C10: SquareGenerator(n) completes: it suspends n times and never more, the
\* call after the n-th suspension returns with the context not unwinding and
\* all frames popped, and nothing further is yielded.
C10_Bounded ==
    entry = "SquareGenerator" =>
        /\ Len(yielded) <= arg /\ calls <= arg + 1
        /\ phase = "done" =>
              /\ calls = arg + 1 /\ Len(yielded) = arg
              /\ ~unwinding /\ frames = <<>> /\ acts = <<>>
              /\ ~ENABLED Next

C10_Terminates ==
    /\ []C10_Bounded
    /\ (entry = "SquareGenerator") ~> (phase = "done")

C10_Witness ==
    /\ entry = "SquareGenerator" /\ arg = 0
    /\ phase = "done" /\ calls = 1 /\ yielded = <<>>

(***************************************************************************)
(* Coloring (compile, colorFunctions).                                     *)
(*                                                                         *)
(* The program is a call graph over three functions of the module, the two *)
(* instantiations of coroutine.Yield it uses and an instantiation of       *)
(* another generic function.                                               *)
(***************************************************************************)
\* largest number of call edges of a program
MaxEdges == 4

\* no coroutine is running
RunIdle ==
    /\ entry = "" /\ arg = 0 /\ phase = "off"
    /\ acts = <<>> /\ frames = <<>> /\ fp = 0
    /\ unwinding = FALSE /\ resuming = FALSE
    /\ yielded = <<>> /\ trace = <<>> /\ calls = 0
    /\ pending = None /\ rejoined = NoRejoin
    /\ pushes = 0 /\ exits = 0

Funcs == {"f1", "f2", "f3"}

Insts == {"Yield[int,any]", "Yield[string,any]"}

\* ssautil.AllFunctions(prog)
AllFunctions == Funcs \cup Insts \cup {"Map[int]"}

\* fn.Origin(): the generic function an instantiation was made from
Origin(fn) ==
    CASE fn \in Insts -> "Yield"
      [] fn = "Map[int]" -> "Map"
      [] OTHER -> ""

\* fn.Signature
Signature(fn) ==
    CASE fn = "Yield[int,any]" -> "func(int) any"
      [] fn = "Yield[string,any]" -> "func(string) any"
      [] fn = "Map[int]" -> "func(int) int"
      [] OTHER -> "func(int)"

\* yieldInstances with only the first instantiation found kept
yieldInstancesFirst(all) ==
    [fn \in {fn \in all : fn = "Yield[int,any]"} |-> Signature(fn)]

\* yieldInstances: every function whose origin is coroutine.Yield, with its
\* signature
yieldInstances(all) ==
    [fn \in {fn \in all : Origin(fn) = "Yield"} |-> Signature(fn)]

\* the call edges a program may have: a function of the module calls any
\* function
AllEdges == Funcs \X AllFunctions

\* node.In: the callers of a node
Callers(n) == {e[1] : e \in {e \in prog.edges : e[2] = n}}

\* the color a node passes to its callers
NodeColor(n) ==
    IF n \in DOMAIN yieldInstances(AllFunctions)
    THEN yieldInstances(AllFunctions)[n]
    ELSE colors[n]

\* what compile does without regard to the error of colorFunctions
colorsByPkgAnyway(cs, err) == {f \in DOMAIN cs : cs[f] # ""}

\* colors, err := colorFunctions(...); if err != nil { return err }; the
\* colored functions are then grouped by package and compiled
colorsByPkg(cs, err) == IF err # "" THEN {} ELSE {f \in DOMAIN cs : cs[f] # ""}

ColorInit ==
    /\ RunIdle /\ ValidIdle /\ DriverIdle /\ EmitIdle /\ SerdeIdle
    /\ prog \in [edges : {E \in SUBSET AllEdges : Cardinality(E) <= MaxEdges},
                 sigs : {yieldInstances(AllFunctions)}]
    /\ colors = [f \in AllFunctions |-> ""]
    /\ work = {}
    /\ cerr = ""
    /\ cphase = "loaded"
    /\ compiled = {}

\* colorFunctions starts from every instantiation of Yield
ColorStart ==
    /\ cphase = "loaded"
    /\ work' = DOMAIN prog.sigs
    /\ cphase' = "coloring"
    /\ UNCHANGED <<rvars, evars, svars, prog, colors, cerr, compiled, decl, gate, verr,
                   pkgs, left, files, derr>>

\* the callers of a colored node take its color: a caller without a color
\* gets it and is visited in turn
ColorCallers ==
    /\ cphase = "coloring"
    /\ \E n \in work :
          LET c == NodeColor(n)
          IN /\ \A f \in Callers(n) : colors[f] \in {"", c}
             /\ colors' = [f \in AllFunctions |->
                              IF f \in Callers(n) THEN c ELSE colors[f]]
             /\ work' = (work \ {n}) \cup {f \in Callers(n) : colors[f] = ""}
    /\ UNCHANGED <<rvars, evars, svars, prog, cerr, cphase, compiled, decl, gate, verr,
                   pkgs, left, files, derr>>

\* a caller already has another color: colorFunctions fails
ColorAmbiguous ==
    /\ cphase = "coloring"
    /\ \E n \in work : \E f \in Callers(n) : colors[f] \notin {"", NodeColor(n)}
    /\ cerr' = "ambiguous coroutine color"
    /\ cphase' = "failed"
    /\ UNCHANGED <<rvars, evars, svars, prog, colors, work, compiled, decl, gate, verr,
                   pkgs, left, files, derr>>

\* the fixed point: no node is left to visit
ColorReturn ==
    /\ cphase = "coloring"
    /\ work = {}
    /\ cphase' = "colored"
    /\ UNCHANGED <<rvars, evars, svars, prog, colors, work, cerr, compiled, decl, gate, verr,
                   pkgs, left, files, derr>>

\* compile goes on with the result of colorFunctions
CompileColored ==
    /\ cphase \in {"colored", "failed"}
    /\ compiled' = colorsByPkg(colors, cerr)
    /\ cphase' = "done"
    /\ UNCHANGED <<rvars, evars, svars, prog, colors, work, cerr, decl, gate, verr,
                   pkgs, left, files, derr>>

ColorNext ==
    \/ ColorStart
    \/ ColorCallers
    \/ ColorAmbiguous
    \/ ColorReturn
    \/ CompileColored

ColorSpec == ColorInit /\ [][ColorNext]_vars

\* the nodes reached from the nodes of S along call edges
RECURSIVE Reached(_, _)
Reached(S, edges) ==
    LET more == S \cup {e[2] : e \in {e \in edges : e[1] \in S}}
    IN IF more = S THEN S ELSE Reached(more, edges)

\* the instantiations of Yield some call path from f reaches
YieldsReached(f) ==
    Insts \cap Reached({e[2] : e \in {e \in prog.edges : e[1] = f}}, prog.edges)

\* some function reaches two instantiations of Yield
Ambiguous == \E f \in Funcs : Cardinality(YieldsReached(f)) > 1

\* C11: when coloring succeeds, a function has a color if and only if some
\* call path from it reaches an instantiation of Yield, and its color is the
\* signature of an instantiation it reaches; this for every call graph,
\* cyclic ones included.
C11_Coloring ==
    cphase \in {"colored", "done"} /\ cerr = "" =>
        \A f \in AllFunctions \ Insts :
            /\ colors[f] # "" <=> YieldsReached(f) # {}
            /\ colors[f] # "" => \E y \in YieldsReached(f) : colors[f] = Signature(y)

\* f1 and f2 call each other, f2 calls an instantiation, f3 calls nothing:
\* both functions of the cycle are colored, f3 is not
C11_Witness ==
    /\ cphase = "colored"
    /\ prog.edges = {<<"f1", "f2">>, <<"f2", "f1">>, <<"f2", "Yield[string,any]">>}
    /\ colors["f1"] = "func(string) any" /\ colors["f2"] = "func(string) any"
    /\ colors["f3"] = ""

\* C12: a function never carries two colors.  When some function reaches two
\* instantiations of Yield, coloring fails with the error "ambiguous
\* coroutine color" and nothing is handed to compilePackage; otherwise
\* coloring succeeds, and every function the compiler goes on with has exactly
\* one color.
C12_OneColor ==
    /\ cphase = "colored" => ~Ambiguous /\ cerr = ""
    /\ cphase = "failed" => Ambiguous /\ cerr = "ambiguous coroutine color"
    /\ cphase = "done" =>
          /\ Ambiguous <=> cerr # ""
          /\ Ambiguous => compiled = {}
          /\ \A f \in compiled : colors[f] \in {Signature(y) : y \in Insts}

\* f1 calls both instantiations: coloring has failed and compile stopped
C12_Witness ==
    /\ cphase = "done"
    /\ prog.edges = {<<"f1", "Yield[int,any]">>, <<"f1", "Yield[string,any]">>,
                     <<"f2", "f1">>}
    /\ cerr = "ambiguous coroutine color"
    /\ compiled = {}

(***************************************************************************)
(* Statement validation (compilePackage, unsupported).                     *)
(*                                                                         *)
(* A syntax node is a record: its go/ast type (kind), an attribute (tok:   *)
(* the token of a statement, the object class of an identifier, the type   *)
(* class of a range operand, what a call expression really is) and its     *)
(* children in the order ast.Walk visits them (lhs, then sub).             *)
(***************************************************************************)
\* largest number of statements in the body of a validated function
MaxStmts == 2

Node(kind, tok, lhs, sub) == [kind |-> kind, tok |-> tok, lhs |-> lhs, sub |-> sub]

\* an absent child (a nil Init, Cond, Post, Label)
NoNode == Node("nil", "", <<>>, <<>>)

StmtKinds ==
    {"DeferStmt", "GoStmt", "LabeledStmt", "TypeSwitchStmt", "SelectStmt",
     "CommClause", "DeclStmt", "RangeStmt", "AssignStmt", "BranchStmt",
     "ForStmt", "BlockStmt", "CaseClause", "EmptyStmt", "ExprStmt", "IfStmt",
     "IncDecStmt", "ReturnStmt", "SendStmt", "SwitchStmt", "BadStmt"}

ExprKinds ==
    {"Ident", "BasicLit", "CallExpr", "FuncLit", "BinaryExpr", "IndexExpr",
     "SelectorExpr", "ParenExpr", "ArrayType", "FuncType"}

\* the children of a node, in the order of ast.Walk
Children(n) == SelectSeq(n.lhs \o n.sub, LAMBDA c : c # NoNode)

\* an identifier; cls is the class of the object it denotes: "var", "func",
\* "type" (a declared type name), "universe" (a built-in function or type),
\* "pkg" (an imported package), "unsafe" (the package unsafe)
Id(cls) == Node("Ident", cls, <<>>, <<>>)

\* x.Sel
Selector(x, sel) == Node("SelectorExpr", "", <<>>, <<x, sel>>)

\* fun(args); what is "call" for a function or method call, "builtin" for a
\* built-in, "conversion" for a type conversion
CallExpr(what, fun, args) == Node("CallExpr", what, <<>>, <<fun>> \o args)

\* func() { body }
FuncLit(body) ==
    Node("FuncLit", "", <<>>, <<Node("FuncType", "", <<>>, <<>>), Node("BlockStmt", "", <<>>, body)>>)

ExprStmt(e) == Node("ExprStmt", "", <<>>, <<e>>)

AssignStmt(lhs, rhs) == Node("AssignStmt", "=", lhs, rhs)

BranchStmt(tok) == Node("BranchStmt", tok, <<>>, <<>>)

\* for init; cond; post { body }: the four children, absent ones as NoNode
ForStmt(init, cond, post, body) ==
    Node("ForStmt", "", <<>>, <<init, cond, post, Node("BlockStmt", "", <<>>, body)>>)

IncDecStmt(x) == Node("IncDecStmt", "++", <<>>, <<x>>)

\* label: stmt
LabeledStmt(s) == Node("LabeledStmt", "", <<>>, <<Id("label"), s>>)

\* for range x { }; cls is the class of the type of x
RangeStmt(cls) == Node("RangeStmt", cls, <<>>, <<Id("var"), Node("BlockStmt", "", <<>>, <<>>)>>)

IfStmt(body) == Node("IfStmt", "", <<>>, <<Id("var"), Node("BlockStmt", "", <<>>, body)>>)

\* func name() { body }
ValidatedDecl(body) ==
    Node("FuncDecl", "", <<>>,
         <<Id("func"), Node("FuncType", "", <<>>, <<>>), Node("BlockStmt", "", <<>>, body)>>)

\* x, f(x), g(x)
ArgX == Id("var")

CallF == CallExpr("call", Id("func"), <<ArgX>>)

\* expressions of a validated function
Exprs ==
    {ArgX,
     CallF,
     \* f(g(x))
     CallExpr("call", Id("func"), <<CallF>>),
     \* f(x) + g(x)
     Node("BinaryExpr", "+", <<>>, <<CallF, CallF>>),
     \* f(len(x))
     CallExpr("call", Id("func"), <<CallExpr("builtin", Id("universe"), <<ArgX>>)>>),
     \* f(T(x)), T a declared type
     CallExpr("call", Id("func"), <<CallExpr("conversion", Id("type"), <<ArgX>>)>>),
     \* f([]byte(x))
     CallExpr("call", Id("func"),
              <<CallExpr("conversion", Node("ArrayType", "", <<>>, <<Id("universe")>>), <<ArgX>>)>>),
     \* time.Duration(f(x))
     CallExpr("conversion", Selector(Id("pkg"), Id("type")), <<CallF>>),
     \* unsafe.Pointer(f(x))
     CallExpr("conversion", Selector(Id("unsafe"), Id("type")), <<CallF>>),
     \* v.m(f(x))
     CallExpr("call", Selector(Id("var"), Id("func")), <<CallF>>),
     \* func() { f(x) }
     FuncLit(<<ExprStmt(CallF)>>),
     \* func() { defer f(x) }
     FuncLit(<<Node("DeferStmt", "", <<>>, <<CallF>>)>>)}

\* statements without statements inside
LeafStmts ==
    {ExprStmt(e) : e \in Exprs}
    \cup {AssignStmt(<<Id("var")>>, <<e>>) : e \in {ArgX, CallF}}
    \cup {\* a, b = x, x
          AssignStmt(<<Id("var"), Id("var")>>, <<ArgX, ArgX>>),
          \* a, b = f(x)
          AssignStmt(<<Id("var"), Id("var")>>, <<CallF>>),
          \* a[x] = x
          AssignStmt(<<Node("IndexExpr", "", <<>>, <<Id("var"), ArgX>>)>>, <<ArgX>>),
          \* a[x], b = x, x
          AssignStmt(<<Node("IndexExpr", "", <<>>, <<Id("var"), ArgX>>), Id("var")>>, <<ArgX, ArgX>>),
          Node("DeferStmt", "", <<>>, <<CallF>>),
          Node("GoStmt", "", <<>>, <<CallF>>),
          Node("TypeSwitchStmt", "", <<>>, <<ExprStmt(ArgX), Node("BlockStmt", "", <<>>, <<>>)>>),
          Node("SelectStmt", "", <<>>,
               <<Node("BlockStmt", "", <<>>, <<Node("CommClause", "", <<>>, <<>>)>>)>>),
          Node("DeclStmt", "", <<>>, <<>>),
          Node("EmptyStmt", "", <<>>, <<>>),
          Node("ReturnStmt", "", <<>>, <<>>),
          Node("SendStmt", "", <<>>, <<Id("var"), ArgX>>),
          Node("BadStmt", "", <<>>, <<>>),
          IncDecStmt(Id("var")),
          BranchStmt("goto"), BranchStmt("fallthrough"),
          BranchStmt("break"), BranchStmt("continue"),
          RangeStmt("Slice"), RangeStmt("Array"), RangeStmt("Map"), RangeStmt("Basic")}

\* statements with statements inside
NestingStmts ==
    {IfStmt(<<s>>) : s \in {ExprStmt(CallF), Node("GoStmt", "", <<>>, <<CallF>>), BranchStmt("goto")}}
    \cup {LabeledStmt(s) : s \in {ExprStmt(CallF), ForStmt(NoNode, NoNode, NoNode, <<>>),
                                  Node("DeferStmt", "", <<>>, <<CallF>>)}}
    \cup {ForStmt(NoNode, Id("var"), post, <<ExprStmt(CallF)>>) :
             post \in {NoNode, IncDecStmt(Id("var")),
                       IncDecStmt(Node("IndexExpr", "", <<>>, <<Id("var"), ArgX>>)),
                       AssignStmt(<<Id("var")>>, <<ArgX>>)}}
    \cup {Node("SwitchStmt", "", <<>>,
               <<Id("var"), Node("BlockStmt", "", <<>>,
                                 <<Node("CaseClause", "", <<>>, <<ArgX, s>>)>>)>>) :
             s \in {ExprStmt(CallF), BranchStmt("fallthrough")}}

\* the function declarations handed to the validator
Decls ==
    {ValidatedDecl(b) : b \in UNION {[1..k -> LeafStmts \cup NestingStmts] : k \in 1..MaxStmts}}

\* countFunctionCalls: the call expressions of expr that are neither a call
\* of an identifier denoting a universe object or a type name, nor a call
\* of a selector on the package unsafe
RECURSIVE countFunctionCalls(_), countList(_, _)
countFunctionCalls(expr) ==
    LET skip ==
            /\ expr.kind = "CallExpr"
            /\ LET f == expr.sub[1]
               IN \/ f.kind = "Ident" /\ f.tok \in {"universe", "type"}
                  \/ f.kind = "SelectorExpr" /\ f.sub[1].kind = "Ident" /\ f.sub[1].tok = "unsafe"
    IN (IF expr.kind = "CallExpr" /\ ~skip THEN 1 ELSE 0) + countList(Children(expr), 1)

countList(l, i) ==
    IF i > Len(l) THEN 0 ELSE countFunctionCalls(l[i]) + countList(l, i + 1)

\* the for statement's rule, the same in both passes: the post statement is
\* absent or is an increment or decrement of an identifier
forPost(n, err) ==
    LET post == n.sub[3]
    IN CASE post = NoNode -> err
         [] post.kind = "IncDecStmt" ->
                IF post.sub[1].kind = "Ident" THEN err
                ELSE "not implemented: for post inc/dec"
         [] OTHER -> "not implemented: for post"

\* the callback of compilePackage on a statement node: the error after it
inlineCheck(n, err) ==
    CASE n.kind = "DeferStmt" -> "not implemented: defer"
      [] n.kind = "GoStmt" -> "not implemented: go"
      [] n.kind = "LabeledStmt" -> "not implemented: labels"
      [] n.kind = "TypeSwitchStmt" -> "not implemented: type switch"
      [] n.kind = "SelectStmt" -> "not implemented: select"
      [] n.kind = "CommClause" -> "not implemented: select case"
      [] n.kind = "DeclStmt" -> "not implemented: inline decls"
      [] n.kind = "RangeStmt" ->
            IF n.tok \in {"Array", "Slice"} THEN err
            ELSE "not implemented: for range"
      [] n.kind = "AssignStmt" ->
            LET e1 == IF Len(n.lhs) # 1 \/ Len(n.lhs) # Len(n.sub)
                      THEN "not implemented: multiple assign" ELSE err
            IN IF n.lhs[1].kind # "Ident"
               THEN "not implemented: assign to non-ident" ELSE e1
      [] n.kind = "BranchStmt" ->
            CASE n.tok = "goto" -> "not implemented: goto"
              [] n.tok = "fallthrough" -> "not implemented: fallthrough"
              [] n.tok = "break" -> "not implemented: break"
              [] n.tok = "continue" -> "not implemented: continue"
              [] OTHER -> IF n.lhs # <<>> THEN "not implemented: labeled branch" ELSE err
      [] n.kind = "ForStmt" -> forPost(n, err)
      [] n.kind \in {"BlockStmt", "CaseClause", "EmptyStmt", "ExprStmt", "IfStmt",
                     "IncDecStmt", "ReturnStmt", "SendStmt", "SwitchStmt"} -> err
      [] OTHER -> "not implmemented: ast.Stmt"

\* the callback of unsupported on a node: the error after it
unsupportedCheck(n, err) ==
    IF n.kind \in ExprKinds
    THEN LET e1 == IF n.kind = "FuncLit" THEN "not implemented: func literals" ELSE err
         IN IF countFunctionCalls(n) > 1
            THEN "not implemented: multiple function calls in an expression"
            ELSE e1
    ELSE IF n.kind \in StmtKinds
    THEN CASE n.kind = "DeferStmt" -> "not implemented: defer"
           [] n.kind = "GoStmt" -> "not implemented: go"
           [] n.kind = "SelectStmt" -> "not implemented: select"
           [] n.kind = "CommClause" -> "not implemented: select case"
           [] n.kind = "BranchStmt" ->
                CASE n.tok = "goto" -> "not implemented: goto"
                  [] n.tok = "fallthrough" -> "not implemented: fallthrough"
                  [] OTHER -> err
           [] n.kind = "LabeledStmt" ->
                IF n.sub[2].kind \in {"ForStmt", "SwitchStmt", "TypeSwitchStmt", "SelectStmt"}
                THEN err
                ELSE "not implemented: labels not attached to for/switch/select"
           [] n.kind = "ForStmt" -> forPost(n, err)
           [] n.kind \in {"AssignStmt", "BlockStmt", "CaseClause", "DeclStmt",
                          "EmptyStmt", "ExprStmt", "IfStmt", "IncDecStmt",
                          "RangeStmt", "ReturnStmt", "SendStmt", "SwitchStmt",
                          "TypeSwitchStmt"} -> err
           [] OTHER -> "not implmemented: ast.Stmt"
    ELSE err

\* Visit with the callback of unsupported called by both passes
VisitUnsupportedOnly(g, n, err) ==
    LET e == unsupportedCheck(n, err) IN [err |-> e, descend |-> e = ""]

\* one call of the callback g passes to ast.Inspect: the error afterwards,
\* and whether the callback returned true (the children are visited).  The
\* callback of compilePackage returns true for every node that is not a
\* statement, and err == nil for a statement; that of unsupported returns
\* err == nil for every node.
Visit(g, n, err) ==
    IF g = "compilePackage"
    THEN IF n.kind \in StmtKinds
         THEN LET e == inlineCheck(n, err) IN [err |-> e, descend |-> e = ""]
         ELSE [err |-> err, descend |-> TRUE]
    ELSE LET e == unsupportedCheck(n, err) IN [err |-> e, descend |-> e = ""]

\* ast.Inspect: the callback is called on the node; when it returns true the
\* children are walked, one after the other; the walk of a list goes on to
\* the next sibling whatever the callback returned
RECURSIVE inspect(_, _, _), inspectList(_, _, _, _)
inspect(g, n, err) ==
    LET r == Visit(g, n, err)
    IN IF r.descend THEN inspectList(g, Children(n), 1, r.err) ELSE r.err

inspectList(g, l, i, err) ==
    IF i > Len(l) THEN err ELSE inspectList(g, l, i + 1, inspect(g, l[i], err))

ValidInit ==
    /\ RunIdle /\ ColorIdle /\ DriverIdle /\ EmitIdle /\ SerdeIdle
    /\ decl \in Decls
    /\ gate = ""
    /\ verr = ""

\* the validation of compilePackage
ValidateInline ==
    /\ gate = ""
    /\ gate' = "compilePackage"
    /\ verr' = inspect("compilePackage", decl, "")
    /\ UNCHANGED <<rvars, evars, svars, prog, colors, work, cerr, cphase, compiled, decl,
                   pkgs, left, files, derr>>

\* the validation of unsupported
ValidateUnsupported ==
    /\ gate = ""
    /\ gate' = "unsupported"
    /\ verr' = inspect("unsupported", decl, "")
    /\ UNCHANGED <<rvars, evars, svars, prog, colors, work, cerr, cphase, compiled, decl,
                   pkgs, left, files, derr>>

ValidNext == ValidateInline \/ ValidateUnsupported

ValidSpec == ValidInit /\ [][ValidNext]_vars

\* the nodes of a tree, in the order ast.Walk reaches them
RECURSIVE Preorder(_), PreorderList(_, _)
Preorder(n) == <<n>> \o PreorderList(Children(n), 1)

PreorderList(l, i) ==
    IF i > Len(l) THEN <<>> ELSE Preorder(l[i]) \o PreorderList(l, i + 1)

DeclNodes == {Preorder(decl)[i] : i \in 1..Len(Preorder(decl))}

\* the callback of pass g reports an error on node n taken alone
Flagged(g, n) == Visit(g, n, "").err # ""

\* the constructs rejected unconditionally
Unconditional ==
    {"defer", "go", "label", "select", "type switch", "inline decl", "assign",
     "goto", "fallthrough"}

\* the unconditionally rejected construct a node is, or ""
ConstructOf(n) ==
    CASE n.kind = "DeferStmt" -> "defer"
      [] n.kind = "GoStmt" -> "go"
      [] n.kind = "LabeledStmt" ->
            IF n.sub[2].kind \in {"ForStmt", "SwitchStmt", "TypeSwitchStmt", "SelectStmt"}
            THEN "" ELSE "label"
      [] n.kind \in {"SelectStmt", "CommClause"} -> "select"
      [] n.kind = "TypeSwitchStmt" -> "type switch"
      [] n.kind = "DeclStmt" -> "inline decl"
      [] n.kind = "AssignStmt" ->
            IF Len(n.lhs) # 1 \/ n.lhs[1].kind # "Ident" THEN "assign" ELSE ""
      [] n.kind = "BranchStmt" /\ n.tok \in {"goto", "fallthrough"} -> n.tok
      [] OTHER -> ""

\* the errors that name a construct
ErrorsNaming(x) ==
    CASE x = "defer" -> {"not implemented: defer"}
      [] x = "go" -> {"not implemented: go"}
      [] x = "label" -> {"not implemented: labels",
                         "not implemented: labels not attached to for/switch/select"}
      [] x = "select" -> {"not implemented: select", "not implemented: select case"}
      [] x = "type switch" -> {"not implemented: type switch"}
      [] x = "inline decl" -> {"not implemented: inline decls"}
      [] x = "assign" -> {"not implemented: multiple assign",
                          "not implemented: assign to non-ident"}
      [] x = "goto" -> {"not implemented: goto"}
      [] x = "fallthrough" -> {"not implemented: fallthrough"}

FirstFlagged(g) ==
    LET ns == Preorder(decl)
        at == {i \in 1..Len(ns) : Flagged(g, ns[i])}
    IN IF at = {} THEN NoNode ELSE ns[CHOOSE i \in at : \A j \in at : i <= j]

\* C15: the error a validation pass returns is the error of the first
\* violation in traversal order; nodes visited after it do not change it.
C15_FirstViolation ==
    gate # "" =>
        verr = (IF FirstFlagged(gate) = NoNode THEN ""
                ELSE Visit(gate, FirstFlagged(gate), "").err)

\* the calls of functions and methods in an expression: built-ins and type
\* conversions are not counted, in whatever form they are written
RECURSIVE RealCalls(_), RealCallsList(_, _)
RealCalls(e) ==
    (IF e.kind = "CallExpr" /\ e.tok = "call" THEN 1 ELSE 0) + RealCallsList(Children(e), 1)

RealCallsList(l, i) ==
    IF i > Len(l) THEN 0 ELSE RealCalls(l[i]) + RealCallsList(l, i + 1)

\* C16: unsupported rejects a function in which some expression contains
\* more than one call (built-ins and type conversions not counted) or in
\* which a function literal appears, and this rule rejects nothing else: a
\* function without such an expression, without a function literal and
\* without a statement the pass objects to is accepted.
C16_ExprRule ==
    gate = "unsupported" =>
        LET many == \E n \in DeclNodes : n.kind \in ExprKinds /\ RealCalls(n) > 1
            lit == \E n \in DeclNodes : n.kind = "FuncLit"
            stmt == \E n \in DeclNodes : n.kind \in StmtKinds /\ Flagged(gate, n)
        IN /\ many => verr # ""
           /\ lit => verr # ""
           /\ (~many /\ ~lit /\ ~stmt) => verr = ""

(***************************************************************************)
(* A run of compile over the packages that hold colored functions.         *)
(***************************************************************************)
\* largest number of packages with colored functions in a run
MaxPkgs == 2

PkgNames == {"a", "b", "c"}

\* the colored functions a package may hold
DriverDecls ==
    {ValidatedDecl(<<ExprStmt(CallF)>>),
     ValidatedDecl(<<Node("ReturnStmt", "", <<>>, <<>>)>>),
     ValidatedDecl(<<Node("DeferStmt", "", <<>>, <<CallF>>)>>)}

\* compilePackage: the colored declarations are validated and compiled one
\* after the other, and the first error is returned; the result is that
\* error, or "" when the package gets as far as writing its file
RECURSIVE compilePackage(_, _)
compilePackage(decls, i) ==
    IF i > Len(decls) THEN ""
    ELSE LET err == inspect("compilePackage", decls[i], "")
         IN IF err # "" THEN err ELSE compilePackage(decls, i + 1)

DriverInit ==
    /\ RunIdle /\ ColorIdle /\ ValidIdle /\ EmitIdle /\ SerdeIdle
    /\ \E P \in {P \in SUBSET PkgNames : Cardinality(P) \in 1..MaxPkgs} :
          pkgs \in [P -> UNION {[1..k -> DriverDecls] : k \in 1..2}]
    /\ left = DOMAIN pkgs
    /\ files = {}
    /\ derr = ""

\* for p, colors := range colorsByPkg: the next package, in whatever order
\* the map yields it, compiles and its output file is created
CompilePackageOK ==
    /\ derr = ""
    /\ \E p \in left :
          /\ compilePackage(pkgs[p], 1) = ""
          /\ files' = files \cup {p}
          /\ left' = left \ {p}
    /\ UNCHANGED <<rvars, evars, svars, prog, colors, work, cerr, cphase, compiled, decl, gate,
                   verr, pkgs, derr>>

\* the next package fails to compile: compile returns its error
CompilePackageFail ==
    /\ derr = ""
    /\ \E p \in left :
          /\ compilePackage(pkgs[p], 1) # ""
          /\ derr' = compilePackage(pkgs[p], 1)
    /\ UNCHANGED <<rvars, evars, svars, prog, colors, work, cerr, cphase, compiled, decl, gate,
                   verr, pkgs, left, files>>

DriverNext == CompilePackageOK \/ CompilePackageFail

DriverSpec == DriverInit /\ [][DriverNext]_vars

\* C14: when a colored function of the run contains an unsupported construct,
\* compile returns an error and the run has created no output file, in
\* whatever order the packages were compiled.
C14_NoOutputOnError ==
    /\ derr # "" => files = {}
    /\ (left = {} /\ derr = "") =>
          \A p \in DOMAIN pkgs : \A i \in 1..Len(pkgs[p]) :
              inspect("compilePackage", pkgs[p][i], "") = ""

(***************************************************************************)
(* The slot plan.                                                          *)
(***************************************************************************)
\* the identifiers of an expression and of a statement
RECURSIVE ExprIdents(_), StmtIdents(_)
ExprIdents(e) ==
    IF e = Nil THEN {}
    ELSE CASE e.k = "var" -> {e.x}
           [] e.k = "bin" -> ExprIdents(e.a) \cup ExprIdents(e.b)
           [] OTHER -> {}

StmtIdents(s) ==
    LET each(l) == UNION {StmtIdents(l[i]) : i \in 1..Len(l)}
    IN CASE s.kind = "assign" -> {s.lhs} \cup ExprIdents(s.rhs)
         [] s.kind = "incdec" -> {s.x}
         [] s.kind = "yield" -> ExprIdents(s.arg)
         [] s.kind = "call" -> UNION {ExprIdents(s.args[i]) : i \in 1..Len(s.args)}
         [] s.kind = "block" -> each(s.list)
         [] s.kind = "if" -> ExprIdents(s.cond) \cup StmtIdents(s.body) \cup StmtIdents(s.els)
         [] s.kind = "for" ->
                StmtIdents(s.init) \cup ExprIdents(s.cond) \cup StmtIdents(s.post)
                    \cup StmtIdents(s.body)
         [] s.kind = "switch" -> ExprIdents(s.tag) \cup each(s.body)
         [] s.kind = "case" ->
                UNION {ExprIdents(s.list[i]) : i \in 1..Len(s.list)} \cup each(s.body)
         [] OTHER -> {}

\* the variables a statement declares (the targets of :=), in source order
RECURSIVE Declares(_)
Declares(s) ==
    LET each(l, k) == [i \in 1..Len(l) |-> Declares(l[i])]
        RECURSIVE flat(_, _)
        flat(l, i) == IF i > Len(l) THEN <<>> ELSE Declares(l[i]) \o flat(l, i + 1)
    IN CASE s.kind = "assign" ->
                IF s.tok = "define" /\ s.lhs.obj # "nil" THEN <<s.lhs.obj>> ELSE <<>>
         [] s.kind = "block" -> flat(s.list, 1)
         [] s.kind = "if" -> Declares(s.body) \o Declares(s.els)
         [] s.kind = "for" -> Declares(s.init) \o Declares(s.body)
         [] s.kind = "switch" -> flat(s.body, 1)
         [] s.kind = "case" -> flat(s.body, 1)
         [] OTHER -> <<>>

\* the declarations of a function: its named parameters and results and the
\* variables its body declares
NamedOf(ids) == SelectSeq([i \in 1..Len(ids) |-> ids[i].obj], LAMBDA o : o # "nil")

Declarations(fn) == NamedOf(fn.params) \o NamedOf(fn.results) \o Declares(fn.body)

\* the name a declaration is written with in the source
Surface(fn, d) ==
    LET ids == {fn.params[i] : i \in 1..Len(fn.params)}
                \cup {fn.results[i] : i \in 1..Len(fn.results)}
                \cup StmtIdents(fn.body)
    IN (CHOOSE x \in ids : x.obj = d).name

\* the name the generated function uses for a declaration
GeneratedName(f, d) == replaceIdent(Ident(Surface(Package[f], d), d), Generated[f].objs).name

\* the declaration a planned name stands for
DeclOfName(f, nm) ==
    LET g == Generated[f]
    IN IF \E i \in 1..Len(g.objs) : SynthName(i - 1) = nm
       THEN g.objs[CHOOSE i \in 1..Len(g.objs) : SynthName(i - 1) = nm]
       ELSE nm

\* the slots at which a declaration is saved
SlotsOf(f, d) ==
    {Generated[f].save[i].slot :
        i \in {i \in 1..Len(Generated[f].save) : DeclOfName(f, Generated[f].save[i].name) = d}}

\* C17: every parameter, named result and variable declared in the body has
\* exactly one slot; the synthetic variables are exactly the variables the
\* body declares; and a parameter or named result keeps its identity and its
\* incoming value: the name the body reads it under holds the argument when
\* the body of a fresh call begins.
C17_OneSlotEach ==
    \A a \in {acts[i] : i \in 1..Len(acts)} :
        LET fn == Package[a.fn]
            g == Generated[a.fn]
            ds == Declarations(fn)
        IN /\ \A i \in 1..Len(ds) : Cardinality(SlotsOf(a.fn, ds[i])) = 1
           /\ {g.objs[i] : i \in 1..Len(g.objs)}
                = {Declares(fn.body)[i] : i \in 1..Len(Declares(fn.body))}
           /\ (a.pc = "body" /\ ~a.started /\ ~a.retrieved) =>
                 \A i \in 1..Len(fn.params) :
                    fn.params[i].name # "_" =>
                        a.env[GeneratedName(a.fn, fn.params[i].obj)] = a.args[i]

\* C18: two declarations of a function never share a generated name or a
\* slot, in particular not when they have the same name in the source; every
\* identifier of the generated body carries the generated name of the
\* declaration it refers to; and Shadow, whose inner x and n shadow the outer
\* ones, computes what its source computes.
C18_ShadowsApart ==
    \A a \in {acts[i] : i \in 1..Len(acts)} :
        LET fn == Package[a.fn]
            g == Generated[a.fn]
            ds == Declarations(fn)
        IN /\ \A i, j \in 1..Len(ds) :
                 i # j =>
                    /\ GeneratedName(a.fn, ds[i]) # GeneratedName(a.fn, ds[j])
                    /\ SlotsOf(a.fn, ds[i]) \cap SlotsOf(a.fn, ds[j]) = {}
                    /\ SlotsOf(a.fn, ds[i]) # {}
           /\ \A x \in UNION {StmtIdents(g.body[i]) : i \in 1..Len(g.body)} :
                 x.name = GeneratedName(a.fn, x.obj)
           /\ entry = "Shadow" =>
                 /\ IsPrefix(trace, Ref.trace)
                 /\ phase = "done" => yielded = Ref.yields

\* Shadow(2) has run to its end: 7 and 8 from the inner x and n, then the
\* outer x and n
C18_Witness ==
    /\ entry = "Shadow" /\ arg = 2
    /\ phase = "done"
    /\ yielded = <<7, 8, 2, 2>>

\* C19: the planned names are the named parameters, then the named results,
\* then the variables the body declares in declaration order, blank ones
\* skipped, at the indices 0, 1, 2, ...; the statement that restores a name
\* reads the index the statement that saves it writes.
C19_SlotOrder ==
    \A a \in {acts[i] : i \in 1..Len(acts)} :
        LET fn == Package[a.fn]
            g == Generated[a.fn]
            ds == Declarations(fn)
        IN /\ [i \in 1..Len(g.save) |-> g.save[i].name]
                = [i \in 1..Len(ds) |-> GeneratedName(a.fn, ds[i])]
           /\ \A i \in 1..Len(g.save) : g.save[i].slot = i - 1
           /\ \A i \in 1..Len(g.save) :
                 g.restore[i].slot = g.save[i].slot /\ g.restore[i].name = g.save[i].name

(***************************************************************************)
(* Stale frames.                                                           *)
(***************************************************************************)
\* the planned slots of a call whose stored value is not of the declared type
Mismatched(a) ==
    {i \in 1..Len(Generated[a.fn].restore) :
        \/ Generated[a.fn].restore[i].slot \notin DOMAIN frames[a.f].types
        \/ frames[a.f].types[Generated[a.fn].restore[i].slot]
              # Generated[a.fn].restore[i].type}

\* C20: a call that resumes a frame (instruction pointer > 0 at entry) in
\* which some planned slot holds a value of another type never reaches its
\* body: every such call that is in its body found all its slots well typed,
\* and the call that finds a mismatch fails, having executed no statement and
\* with its variables as they were before the restore.
C20_StaleFrameFatal ==
    /\ \A i \in 1..Len(acts) :
          (acts[i].pc = "body" /\ acts[i].ip0 > 0) => Mismatched(acts[i]) = {}
    /\ \A i \in 1..Len(acts) :
          (acts[i].pc = "restore" /\ acts[i].ip0 > 0 /\ Mismatched(acts[i]) # {}) =>
              /\ i = Len(acts)
              /\ ~ENABLED Restore
              /\ ~ENABLED SkipRestore
    /\ phase = "failed" =>
          /\ Top.pc = "panic" /\ Top.ip0 > 0 /\ Mismatched(Top) # {}
          /\ Top.log = <<>> /\ ~Top.started /\ Top.ctl = <<>>
          /\ Top.env = Activation(Top.fn, Top.args).env
                          @@ [nm \in {Generated[Top.fn].vars[k] :
                                         k \in 1..Len(Generated[Top.fn].vars)} |-> 0]
          /\ ~ENABLED StaleNext

\* Flat, suspended at its second statement, is resumed over a frame whose
\* slot 0 holds a string: the second call fails in its restore block
C20_Witness ==
    /\ phase = "failed"
    /\ entry = "Flat" /\ calls = 2
    /\ yielded # <<>>
    /\ Top.ip0 > 0
    /\ frames[Top.f].types[0] = "string"

(***************************************************************************)
(* Frames and calls.                                                       *)
(***************************************************************************)
\* the calls in progress that have pushed their frame
Pushed == {i \in 1..Len(acts) : acts[i].pc # "push"}

\* every call in progress that has pushed owns the frame at its depth, no two
\* calls own the same frame, and a call that has not pushed yet is the
\* innermost one and has executed nothing
OwnFrames ==
    /\ \A i \in Pushed : acts[i].f = i /\ acts[i].f \in 1..Len(frames)
    /\ \A i, j \in Pushed : i # j => acts[i].f # acts[j].f
    /\ \A i \in 1..Len(acts) :
          acts[i].pc = "push" =>
              i = Len(acts) /\ acts[i].log = <<>> /\ ~acts[i].started /\ acts[i].ctl = <<>>
    /\ (Running /\ ~unwinding) => fp = Cardinality(Pushed)
    /\ (Running /\ unwinding) => Len(frames) >= Cardinality(Pushed)
    /\ phase = "suspended" => Len(frames) >= 1

\* a call leaves: when it returns normally it is the innermost call and the
\* frame stack is as deep afterwards as it was before the call pushed; when
\* the stack unwinds the call's frame is saved and no frame is popped
LeaveStep ==
    /\ exits' # exits =>
          /\ Top.f = Len(acts) /\ Len(acts') = Len(acts) - 1
          /\ \A i \in 1..Len(acts') : acts'[i].f = acts[i].f
          /\ ~unwinding => Len(frames') = Top.f - 1 /\ fp' = Top.f - 1
          /\ unwinding => /\ Len(frames') = Len(frames)
                          /\ frames'[Top.f].saved = Top.env
                          /\ fp' = fp
    /\ unwinding => Len(frames') = Len(frames)
    /\ (phase' = "suspended" /\ phase # "suspended") =>
          \A i \in 1..Len(frames') : frames'[i].saved # <<>>

\* C21: a frame belongs to one call in progress at a time: every call pushes
\* before it runs a statement of its body, nested calls own the frames 1, 2,
\* ... in call order, a call that returns normally is the innermost one and
\* leaves the frame stack as deep as it found it, and while the stack unwinds
\* every call on the path saves its frame and no frame is popped.
C21_FrameOwnership == []OwnFrames /\ [][LeaveStep]_vars

\* Caller, resumed inside its call of Identity: Identity has returned and
\* popped its frame, Caller goes on with its own
C21_Witness ==
    /\ entry = "Caller" /\ calls = 2
    /\ Len(acts) = 1 /\ Top.pc = "body" /\ Top.ctl # <<>>
    /\ ~unwinding /\ ~resuming
    /\ exits = 3 /\ fp = 1 /\ Len(frames) = 1

(***************************************************************************)
(* compilePackage, declaration by declaration, and the file it writes.     *)
(***************************************************************************)
coroutinePackage == "github.com/stealthrocket/coroutine"

\* the first line of every generated file
Marker == "// Code generated by coroc. DO NOT EDIT"

BuildTags == {"", "durable"}

\* a declaration of a file of the package: a function with its body, which
\* has a color or not, or a declaration that is not a function.  rewritten
\* tells whether compileFunction has worked on the body (it desugars and
\* renames the tree of the source in place).
SrcFunc(n, colored, tree) ==
    [kind |-> "FuncDecl", name |-> n, colored |-> colored, tree |-> tree,
     rewritten |-> FALSE]

SrcGenDecl(n) ==
    [kind |-> "GenDecl", name |-> n, colored |-> FALSE, tree |-> NoNode,
     rewritten |-> FALSE]

\* the declarations a position of a file may hold: a colored or a colorless
\* function, of a body the validator accepts or rejects, or a var declaration
SrcDeclsAt(n) ==
    {SrcFunc(n, c, tr) :
        c \in BOOLEAN,
        tr \in {ValidatedDecl(<<ExprStmt(CallF)>>),
                ValidatedDecl(<<Node("DeferStmt", "", <<>>, <<CallF>>)>>)}}
        \cup {SrcGenDecl(n)}

SrcNames == <<"f", "g">>

\* gen := &ast.File{Name: ast.NewIdent(p.Name)} with the import declaration
File(name) == [Name |-> name, Imports |-> <<coroutinePackage>>, Decls |-> <<>>]

\* every declaration of the package counted as one to compile
anyFuncDecl(d) == d.kind = "FuncDecl"

\* the declarations the loop of compilePackage works on: function
\* declarations that have a color
isColoredDecl(d) == d.kind = "FuncDecl" /\ d.colored

\* the build-tag line written whatever the option holds
buildTagLinesAlways(tags) == <<<<"//go:build ", tags>>, <<>>>>

\* the build-tag line and the empty line after it, when the option is set
buildTagLines(tags) == IF tags # "" THEN <<<<"//go:build ", tags>>, <<>>>> ELSE <<>>

\* format.Node(outputFile, c.fset, gen): the package clause, the imports and
\* the generated functions
formatNode(file) ==
    <<<<"package ", file.Name>>, <<>>>>
        \o [i \in 1..Len(file.Imports) |-> <<"import ", file.Imports[i]>>]
        \o [i \in 1..Len(file.Decls) |-> <<"func ", file.Decls[i]>>]

\* the text of the output file
fileText(tags, file) == <<<<Marker>>, <<>>>> \o buildTagLines(tags) \o formatNode(file)

EmitInit ==
    /\ RunIdle /\ ColorIdle /\ ValidIdle /\ DriverIdle /\ SerdeIdle
    /\ conf \in [buildTags : BuildTags]
    /\ \E k \in 1..Len(SrcNames) :
          \E ds \in [1..k -> UNION {SrcDeclsAt(SrcNames[i]) : i \in 1..Len(SrcNames)}] :
              /\ \A i \in 1..k : ds[i].name = SrcNames[i]
              /\ src \in [name : {"a", "b"}, decls : {ds}]
    /\ gen = <<>>
    /\ epc = [at |-> "compile", i |-> 0, checked |-> {}, err |-> ""]
    /\ out = <<>>

\* compile: a package without a colored function is not in colorsByPkg, and
\* compilePackage is not called for it
EmitNoColor ==
    /\ epc.at = "compile"
    /\ ~\E i \in 1..Len(src.decls) : isColoredDecl(src.decls[i])
    /\ epc' = [epc EXCEPT !.at = "done"]
    /\ UNCHANGED <<rvars, prog, colors, work, cerr, cphase, compiled, decl, gate, verr,
                   pkgs, left, files, derr, svars, conf, src, gen, out>>

\* compilePackage is entered: the file to generate is created with its import
EmitStart ==
    /\ epc.at = "compile"
    /\ \E i \in 1..Len(src.decls) : isColoredDecl(src.decls[i])
    /\ gen' = File(src.name)
    /\ epc' = [epc EXCEPT !.at = "decls", !.i = 1]
    /\ UNCHANGED <<rvars, prog, colors, work, cerr, cphase, compiled, decl, gate, verr,
                   pkgs, left, files, derr, svars, conf, src, out>>

AtDecl == epc.at = "decls" /\ epc.i <= Len(src.decls)

\* a declaration that is not a function, or a function without a color:
\* continue
EmitSkip ==
    /\ AtDecl
    /\ ~isColoredDecl(src.decls[epc.i])
    /\ epc' = [epc EXCEPT !.i = @ + 1]
    /\ UNCHANGED <<rvars, prog, colors, work, cerr, cphase, compiled, decl, gate, verr,
                   pkgs, left, files, derr, svars, conf, src, gen, out>>

\* a colored function that the validation rejects: compilePackage returns
\* the error
EmitReject ==
    /\ AtDecl
    /\ isColoredDecl(src.decls[epc.i])
    /\ inspect("compilePackage", src.decls[epc.i].tree, "") # ""
    /\ epc' = [epc EXCEPT !.at = "failed",
                          !.checked = @ \cup {epc.i},
                          !.err = inspect("compilePackage", src.decls[epc.i].tree, "")]
    /\ UNCHANGED <<rvars, prog, colors, work, cerr, cphase, compiled, decl, gate, verr,
                   pkgs, left, files, derr, svars, conf, src, gen, out>>

\* a colored function that passes: gen.Decls = append(gen.Decls,
\* c.compileFunction(p, decl, color))
EmitFunction ==
    /\ AtDecl
    /\ isColoredDecl(src.decls[epc.i])
    /\ inspect("compilePackage", src.decls[epc.i].tree, "") = ""
    /\ gen' = [gen EXCEPT !.Decls = Append(@, src.decls[epc.i].name)]
    /\ src' = [src EXCEPT !.decls[epc.i].rewritten = TRUE]
    /\ epc' = [epc EXCEPT !.i = @ + 1, !.checked = @ \cup {epc.i}]
    /\ UNCHANGED <<rvars, prog, colors, work, cerr, cphase, compiled, decl, gate, verr,
                   pkgs, left, files, derr, svars, conf, out>>

\* after the last declaration the file is created and written
EmitWrite ==
    /\ epc.at = "decls" /\ epc.i > Len(src.decls)
    /\ out' = fileText(conf.buildTags, gen)
    /\ epc' = [epc EXCEPT !.at = "written"]
    /\ UNCHANGED <<rvars, prog, colors, work, cerr, cphase, compiled, decl, gate, verr,
                   pkgs, left, files, derr, svars, conf, src, gen>>

EmitNext ==
    \/ EmitNoColor
    \/ EmitStart
    \/ EmitSkip
    \/ EmitReject
    \/ EmitFunction
    \/ EmitWrite

EmitSpec == EmitInit /\ [][EmitNext]_vars

\* the declarations of the package that are not colored functions
Colorless == {i \in 1..Len(src.decls) : ~(src.decls[i].kind = "FuncDecl" /\ src.decls[i].colored)}

\* C22: a function without a color is never handed to the validation, its
\* body is never rewritten and it is not among the functions of the
\* generated file; whether the package compiles, and with which error it
\* fails, depends on its colored functions only.
C22_ColorlessUntouched ==
    /\ \A i \in Colorless :
          /\ i \notin epc.checked
          /\ ~src.decls[i].rewritten
          /\ gen # <<>> => \A j \in 1..Len(gen.Decls) : gen.Decls[j] # src.decls[i].name
          /\ \A j \in 1..Len(out) : out[j] # <<"func ", src.decls[i].name>>
    /\ epc.at = "failed" =>
          \E i \in 1..Len(src.decls) :
              /\ i \notin Colorless
              /\ epc.err = inspect("compilePackage", src.decls[i].tree, "")
    /\ epc.at = "written" =>
          /\ \A i \in 1..Len(src.decls) : i \notin Colorless => src.decls[i].rewritten
          /\ Len(gen.Decls) = Cardinality((1..Len(src.decls)) \ Colorless)
    /\ epc.at = "done" => gen = <<>> /\ out = <<>> /\ epc.checked = {}

\* a package is written whose first function has no color and holds a defer
\* statement, and whose second function is colored
C22_Witness ==
    /\ epc.at = "written"
    /\ Len(src.decls) = 2
    /\ src.decls[1].kind = "FuncDecl" /\ ~src.decls[1].colored
    /\ inspect("compilePackage", src.decls[1].tree, "") # ""
    /\ src.decls[2].colored /\ src.decls[2].rewritten
    /\ gen.Decls = <<"g">>

\* the lines of the text that begin with the word w
LinesOf(w) == {j \in 1..Len(out) : out[j] # <<>> /\ out[j][1] = w}

Lowered(f) == renameStmt(desugar(Package[f].body), Generated[f].objs)

\* the statement lists of s that compileStatement reaches: those of blocks
\* and case clauses, through the bodies of conditionals, loops and switches
RECURSIVE ListsOf(_)
ListsOf(s) ==
    LET below(l) == UNION {ListsOf(l[i]) : i \in 1..Len(l)}
    IN CASE s.kind = "block" -> {s.list} \cup below(s.list)
         [] s.kind = "if" -> ListsOf(s.body)
         [] s.kind = "for" -> ListsOf(s.body)
         [] s.kind = "switch" -> below(s.body)
         [] s.kind = "case" -> {s.body} \cup below(s.body)
         [] OTHER -> {}

IsDispatch(s) ==
    /\ s.kind = "switch" /\ s.tag = Nil /\ Len(s.body) > 0
    /\ \A i \in 1..Len(s.body) :
          Len(s.body[i].list) = 1 /\ s.body[i].list[1].k = "iplt"

\* the span ends a dispatch tests, in order
GuardEnds(s) == [i \in 1..Len(s.body) |-> s.body[i].list[1].c]

\* the lists of the function whose statements end where the dispatch tests
ListsFor(f, s) ==
    {l \in ListsOf(Lowered(f)) :
        [i \in 1..Len(l) |-> Generated[f].spans[l[i].id].end] = GuardEnds(s)}

\* what remains to run of a dispatch entered at case k: each statement from
\* the k-th on, each but the last followed by the update of the instruction
\* pointer to the end of its span
RECURSIVE FlowFrom(_, _, _)
FlowFrom(s, ends, k) ==
    IF k > Len(ends) THEN <<>>
    ELSE <<s.body[k].body[1]>>
            \o (IF k < Len(ends) THEN <<SetIP(ends[k])>> ELSE <<>>)
            \o FlowFrom(s, ends, k + 1)

\* the generated statements of s, at any depth
RECURSIVE GenStmts(_)
GenStmts(s) ==
    LET below(l) == UNION {GenStmts(l[i]) : i \in 1..Len(l)}
    IN {s} \cup
       CASE s.kind = "block" -> below(s.list)
         [] s.kind = "if" -> GenStmts(s.body)
         [] s.kind = "for" -> GenStmts(s.body)
         [] s.kind = "switch" -> below(s.body)
         [] s.kind = "case" -> below(s.body)
         [] OTHER -> {}

\* a step that enters a dispatch: the dispatch belongs to one list of two or
\* more statements, the case entered is the first whose span end is above the
\* instruction pointer, and what the call has to run next is that statement
\* and the following ones with nothing between them but the updates of the
\* instruction pointer to their span ends; after the last statement of the
\* list comes what followed the list
DispatchStep ==
    (InBody /\ IsDispatch(Cur) /\ acts' # acts) =>
        LET ls == ListsFor(Top.fn, Cur)
            l == CHOOSE l \in ls : TRUE
            ends == [i \in 1..Len(l) |-> Generated[Top.fn].spans[l[i].id].end]
            ks == {i \in 1..Len(l) : CurIP < ends[i]}
        IN /\ Cardinality(ls) = 1
           /\ Len(l) >= 2 /\ Len(Cur.body) = Len(l)
           /\ Len(acts') = Len(acts)
           /\ IF ks = {} THEN acts'[Len(acts)].ctl = Tail(Top.ctl)
              ELSE LET k == CHOOSE i \in ks : \A j \in ks : i <= j
                   IN acts'[Len(acts)].ctl = FlowFrom(Cur, ends, k) \o Tail(Top.ctl)

\* a step that updates the instruction pointer sets it to the value written
\* in the statement, and it is the only kind of step that changes it
UpdateStep ==
    \A i \in 1..Len(frames) :
        (i <= Len(frames') /\ frames'[i].IP # frames[i].IP) =>
            /\ InBody /\ Cur.kind = "setip" /\ Top.f = i
            /\ frames'[i].IP = Cur.val
            /\ acts'[Len(acts)].ctl = Tail(Top.ctl)

\* a list of no or one statement is compiled without a dispatch: the
\* generated functions hold one dispatch for each list of two or more
\* statements and none besides, and a function whose lists all have one
\* statement never changes its instruction pointer, loop resets apart
ShortLists ==
    \A f \in FuncNames :
        LET gs == UNION {GenStmts(Generated[f].body[i]) : i \in 1..Len(Generated[f].body)}
            ds == {s \in gs : IsDispatch(s)}
        IN /\ \A s \in ds : \E l \in ListsOf(Lowered(f)) :
                 Len(l) >= 2 /\ ListsFor(f, s) = {l}
           /\ \A l \in ListsOf(Lowered(f)) :
                 Len(l) >= 2 => \E s \in ds : ListsFor(f, s) = {l}
           /\ (\A l \in ListsOf(Lowered(f)) : Len(l) <= 1) =>
                 \A s \in gs : s.kind = "setip" =>
                    \E lp \in gs : lp.kind = "for" /\ s.val = Generated[f].spans[lp.id].start

\* C24: in the dispatch of a list of n >= 2 statements, statement i < n is
\* followed at once by the update of the instruction pointer to the end of
\* its span and then by statement i+1 itself, not by a test; nothing follows
\* the last statement; a list of no or one statement has no dispatch and no
\* update.
C24_DispatchFlow == []ShortLists /\ [][DispatchStep /\ UpdateStep]_vars

\* Flat resumed at its second statement: the dispatch was entered at the
\* second case, and the Yield is followed by the update to 2
C24_Witness ==
    /\ entry = "Flat" /\ InBody
    /\ Top.retrieved /\ Top.ip0 = 1 /\ ~Top.started
    /\ Cur.kind = "yield"
    /\ Len(Top.ctl) = 7
    /\ Top.ctl[2] = SetIP(2)
    /\ Top.ctl[7].kind = "incdec"

(***************************************************************************)
(* Spans.                                                                  *)
(***************************************************************************)
\* the statements directly inside a statement, in source order
Kids(s) ==
    CASE s.kind = "block" -> s.list
      [] s.kind = "if" -> <<s.body>> \o (IF s.els = Nil THEN <<>> ELSE <<s.els>>)
      [] s.kind = "for" -> <<s.body>>
      [] s.kind = "switch" -> s.body
      [] s.kind = "case" -> s.body
      [] OTHER -> <<>>

\* the statements of s that have a span: s and everything under it
RECURSIVE Spanned(_)
Spanned(s) == {s} \cup UNION {Spanned(Kids(s)[i]) : i \in 1..Len(Kids(s))}

\* the statement lists of s: those of blocks, of case clauses and of
\* switches (the clauses)
StmtLists(s) == {t.list : t \in {t \in Spanned(s) : t.kind = "block"}}
                    \cup {t.body : t \in {t \in Spanned(s) : t.kind \in {"switch", "case"}}}

\* C25: in every statement list of a colored function the span of each
\* statement is not empty and ends no later than the next one starts, and
\* the span of a statement lies inside the span of the statement that holds
\* it.
C25_SpansOrdered ==
    \A a \in {acts[i] : i \in 1..Len(acts)} :
        LET sp == Generated[a.fn].spans
            body == Lowered(a.fn)
        IN /\ \A l \in StmtLists(body) : \A i \in 1..Len(l) :
                 /\ sp[l[i].id].start < sp[l[i].id].end
                 /\ i < Len(l) => sp[l[i].id].end <= sp[l[i + 1].id].start
           /\ \A s \in Spanned(body) : \A i \in 1..Len(Kids(s)) :
                 /\ sp[s.id].start <= sp[Kids(s)[i].id].start
                 /\ sp[Kids(s)[i].id].end <= sp[s.id].end


\* ---------------------------------------------------------------------------
\* The two validation passes side by side

\* the constructs on which the two passes are described as disagreeing
Disputed(n) ==
    \/ n.kind = "BranchStmt" /\ n.tok \in {"break", "continue"}
    \/ n.kind \in {"TypeSwitchStmt", "DeclStmt"}

\* the pass that was not run
OtherPass == IF gate = "compilePackage" THEN "unsupported" ELSE "compilePackage"

\* C26: on a function that uses none of break, continue, type switch and
\* inline declaration, the validation of compilePackage and unsupported give
\* the same verdict: one accepts exactly when the other does.
C26_PassesAgree ==
    (gate # "" /\ \A n \in DeclNodes : ~Disputed(n)) =>
        (verr = "" <=> inspect(OtherPass, decl, "") = "")

(***************************************************************************)
(* From one iteration of a loop to the next.                               *)
(***************************************************************************)
\* the statements of s at any depth, else branches included
RECURSIVE Inside(_)
Inside(s) ==
    LET below(l) == UNION {Inside(l[i]) : i \in 1..Len(l)}
    IN {s} \cup
       CASE s.kind = "block" -> below(s.list)
         [] s.kind = "if" -> Inside(s.body) \cup (IF s.els = Nil THEN {} ELSE Inside(s.els))
         [] s.kind = "for" -> Inside(s.body)
         [] s.kind = "switch" -> below(s.body)
         [] s.kind = "case" -> below(s.body)
         [] OTHER -> {}

\* the loop that comes next once the statement at the head of c is done:
\* what follows it is the loop, or the loop's post statement and the loop
LoopAfter(c) ==
    IF Len(c) >= 2 /\ c[2].kind = "for" /\ c[2].post = Nil THEN c[2]
    ELSE IF Len(c) >= 3 /\ c[3].kind = "for" /\ c[3].post # Nil /\ c[2] = c[3].post THEN c[3]
    ELSE Nil

\* the call is at the last statement of an iteration: a statement of the
\* body of the loop after which the loop's post statement and condition come
LastOfIteration ==
    /\ InBody
    /\ LoopAfter(Top.ctl) # Nil
    /\ Cur \in Inside(LoopAfter(Top.ctl).body)

\* a step that ends an iteration and leaves the call in front of the post
\* statement or the condition of the loop is the reset: it sets the
\* instruction pointer to the start of the loop's span
ResetStep ==
    (/\ LastOfIteration
     /\ Len(acts') = Len(acts)
     /\ acts'[Len(acts)].pc = "body"
     /\ acts'[Len(acts)].ctl = Tail(Top.ctl)) =>
        /\ Cur = SetIP(Generated[Top.fn].spans[LoopAfter(Top.ctl).id].start)
        /\ frames'[Top.f].IP = Generated[Top.fn].spans[LoopAfter(Top.ctl).id].start

IPValues(f) ==
    LET sp == Generated[f].spans
    IN {0}
       \cup UNION {{sp[l[i].id].end : i \in 1..(Len(l) - 1)} : l \in ListsOf(Lowered(f))}
       \cup {sp[s.id].start : s \in {s \in Inside(Lowered(f)) : s.kind = "for"}}

\* the instruction pointer of the frame of every call in progress, and of
\* the frame left in place for the entry function, is one of those values
KnownIP ==
    /\ \A a \in {acts[i] : i \in 1..Len(acts)} :
          a.pc # "push" => frames[a.f].IP \in IPValues(a.fn)
    /\ frames # <<>> => frames[1].IP \in IPValues(entry)

\* statement s holds the point where call a stopped at the last suspension:
\* the Yield that suspended, or the call of the function that held it
HoldsPending(a, s) ==
    \E t \in Inside(s) :
        \/ a.f = Len(frames) /\ a.fn = pending.fn /\ t.kind = "yield" /\ t.id = pending.id
        \/ a.f < Len(frames) /\ t.kind = "call"

\* the statements of list l completed in its current execution, when the
\* innermost call reaches its dispatch: none when the list is entered
\* afresh; those before the statement that holds the point of suspension
\* when the call is on its way back to that point
Completed(l) ==
    IF ~(resuming /\ Top.retrieved) THEN {}
    ELSE {i \in 1..Len(l) : \E k \in (i + 1)..Len(l) : HoldsPending(Top, l[k])}

\* the guards of the dispatch about to be evaluated are true for exactly
\* the statements of its list that have not completed
GuardsTell ==
    (InBody /\ IsDispatch(Cur)) =>
        /\ Cardinality(ListsFor(Top.fn, Cur)) = 1
        /\ LET l == CHOOSE l \in ListsFor(Top.fn, Cur) : TRUE
           IN \A i \in 1..Len(l) :
                 Eval(Cur.body[i].list[1], Top.env, CurIP, TRUE) = 1 <=> i \notin Completed(l)

\* C28: the instruction pointer of a frame is 0, the span end of a statement
\* that is not the last of its list, or the reset value of a loop; and when
\* a dispatch is evaluated, the guard of statement i is true exactly when
\* statement i has not yet completed in the current execution of the list.
C28_GuardSound == KnownIP /\ GuardsTell

\* Nested, suspended at the Yield of its inner loop, is back at the dispatch
\* of the outer loop's body: the first two statements have completed, their
\* guards are false, and the guard of the inner loop is true
C28_Witness ==
    /\ entry = "Nested" /\ resuming /\ Top.retrieved
    /\ InBody /\ IsDispatch(Cur)
    /\ pending = [fn |-> "Nested", id |-> 10]
    /\ Len(Cur.body) = 3
    /\ Completed(CHOOSE l \in ListsFor(Top.fn, Cur) : TRUE) = {1, 2}
    /\ Eval(Cur.body[2].list[1], Top.env, CurIP, TRUE) = 0
    /\ Eval(Cur.body[3].list[1], Top.env, CurIP, TRUE) = 1

(***************************************************************************)
(* The deserializer: Deserialize and Deserializer.store.                   *)
(*                                                                         *)
(* A pointer is nil or an address; d.ptrs is a Go map, which yields nil    *)
(* for a key it does not hold.  The input of Deserialize is described by   *)
(* what UnmarshalVT makes of it: whether it parses, the build message and  *)
(* the root region it carries, the length of the root's data and the       *)
(* number of bytes the encoding of the root value takes.                   *)
(***************************************************************************)
\* largest ID handed to store
MaxID == 2
\* cap on the number of calls of store
MaxStores == 3
\* largest length of the root region's data
MaxData == 2

NilPtr == "nil"

Pointers == {NilPtr, "0xc000010000", "0xc000010008"}

IDs == 1..MaxID

\* the build IDs a serialized state may carry, and the absence of the
\* build message
NoBuild == "none"

BuildIDs == {"build-1", "build-2"}

\* buildInfo.Id, the ID of the running program
buildID == "build-1"

ErrBuildIDMismatch == "build ID mismatch"

\* errors.New(text)
errorsNew(text) == [msg |-> <<text>>, wraps |-> {}]

\* fmt.Errorf("%v: got %v, expect %v", e, got, expect): the text of e is
\* copied, e is not wrapped
errorfV(e, got, expect) == [msg |-> <<e, ": got ", got, ", expect ", expect>>, wraps |-> {}]

\* fmt.Errorf("%w: got %v, expect %v", e, got, expect)
errorfW(e, got, expect) == [msg |-> <<e, ": got ", got, ", expect ", expect>>, wraps |-> {e}]

\* d.ptrs[i]
ptrsAt(m, i) == IF i \in DOMAIN m THEN m[i] ELSE NilPtr

\* store without the test: d.ptrs[i] = p
storeOverwrite(m, i, p) == [ptrs |-> (i :> p) @@ m, panic |-> FALSE]

\* store: panic when d.ptrs[i] != nil, else d.ptrs[i] = p
store(m, i, p) ==
    IF ptrsAt(m, i) # NilPtr THEN [ptrs |-> m, panic |-> TRUE]
    ELSE [ptrs |-> (i :> p) @@ m, panic |-> FALSE]

\* the inputs of Deserialize
Inputs ==
    {in \in [parses : BOOLEAN, build : BuildIDs \cup {NoBuild}, root : BOOLEAN,
             data : 0..MaxData, need : 0..MaxData] :
        /\ in.need <= in.data
        /\ ~in.parses => in.build = NoBuild /\ ~in.root /\ in.data = 0
        /\ ~in.root => in.data = 0}

\* the variables the deserializer leaves alone
nonSerde ==
    <<rvars, prog, colors, work, cerr, cphase, compiled, decl, gate, verr,
      pkgs, left, files, derr, evars>>

\* what Deserialize returned: the value, the error, and the number of bytes
\* of the root's data that were deserialized
Returned(x, err, read) == [at |-> "returned", x |-> x, err |-> err, read |-> read]

NoError == [msg |-> <<>>, wraps |-> {}]

SerdeInit ==
    /\ RunIdle /\ ColorIdle /\ ValidIdle /\ DriverIdle /\ EmitIdle
    /\ ptrs = <<>>
    /\ stores = <<>>
    /\ spanic = <<>>
    /\ input \in Inputs
    /\ result = <<>>

\* state.UnmarshalVT(b) fails: return nil, err
DeserializeUnmarshalFail ==
    /\ result = <<>> /\ ~input.parses
    /\ result' = Returned("nil", errorsNew("proto: cannot parse"), 0)
    /\ UNCHANGED <<nonSerde, ptrs, stores, spanic, input>>

\* state.Build or state.Root is nil: reading its field is a nil dereference
DeserializeNilField ==
    /\ result = <<>> /\ input.parses
    /\ \/ input.build = NoBuild
       \/ input.build = buildID /\ ~input.root
    /\ result' = [at |-> "panicked", x |-> "nil", err |-> NoError, read |-> 0]
    /\ UNCHANGED <<nonSerde, ptrs, stores, spanic, input>>

\* state.Build.Id != buildInfo.Id
DeserializeMismatch ==
    /\ result = <<>> /\ input.parses
    /\ input.build \notin {NoBuild, buildID}
    /\ result' = Returned("nil", errorfW(ErrBuildIDMismatch, input.build, buildID), 0)
    /\ UNCHANGED <<nonSerde, ptrs, stores, spanic, input>>

\* d := newDeserializer(state.Root.Data, ...): deserializeInterface starts
\* on the root's data with an empty pointer map
NewDeserializer ==
    /\ result = <<>> /\ input.parses
    /\ input.build = buildID /\ input.root
    /\ result' = [at |-> "reading", x |-> "nil", err |-> NoError, read |-> 0]
    /\ ptrs' = <<>>
    /\ UNCHANGED <<nonSerde, stores, spanic, input>>

Reading == result # <<>> /\ result.at = "reading" /\ spanic = <<>>

\* d.store(i, p) returns
StoreOK ==
    /\ Reading /\ Len(stores) < MaxStores
    /\ \E i \in IDs, p \in Pointers :
          /\ ~store(ptrs, i, p).panic
          /\ ptrs' = store(ptrs, i, p).ptrs
          /\ stores' = Append(stores, [id |-> i, p |-> p])
    /\ UNCHANGED <<nonSerde, spanic, input, result>>

\* d.store(i, p) panics
StorePanic ==
    /\ Reading /\ Len(stores) < MaxStores
    /\ \E i \in IDs, p \in Pointers :
          /\ store(ptrs, i, p).panic
          /\ ptrs' = store(ptrs, i, p).ptrs
          /\ spanic' = [id |-> i, p |-> p]
    /\ UNCHANGED <<nonSerde, stores, input, result>>

\* deserializeInterface has returned and bytes are left: len(d.b) != 0
DeserializeTrailing ==
    /\ Reading
    /\ input.data - input.need # 0
    /\ result' = Returned("nil", errorsNew("trailing bytes"), input.need)
    /\ UNCHANGED <<nonSerde, ptrs, stores, spanic, input>>

\* deserializeInterface has returned and the data is used up: return x, nil
DeserializeValue ==
    /\ Reading
    /\ input.data - input.need = 0
    /\ result' = Returned("x", NoError, input.need)
    /\ UNCHANGED <<nonSerde, ptrs, stores, spanic, input>>

SerdeNext ==
    \/ DeserializeUnmarshalFail
    \/ DeserializeNilField
    \/ DeserializeMismatch
    \/ NewDeserializer
    \/ StoreOK
    \/ StorePanic
    \/ DeserializeTrailing
    \/ DeserializeValue

SerdeSpec == SerdeInit /\ [][SerdeNext]_vars

\* the first pointer that the calls of store so far have stored under ID i,
\* a nil pointer being no pointer
RECURSIVE FirstStored(_, _, _)
FirstStored(l, k, i) ==
    IF k > Len(l) THEN NilPtr
    ELSE IF l[k].id = i /\ l[k].p # NilPtr THEN l[k].p
    ELSE FirstStored(l, k + 1, i)

\* a call of store on an ID that maps to a pointer panics and leaves the map
\* as it is; a call on an ID that maps to none returns and records the
\* pointer, leaving the other IDs alone
StoreStep ==
    ptrs' # ptrs \/ spanic' # spanic \/ stores' # stores =>
        \/ /\ ptrs = <<>> /\ ptrs' = <<>> /\ stores' = stores /\ spanic' = spanic
        \/ /\ spanic' # spanic /\ spanic = <<>>
           /\ ptrsAt(ptrs, spanic'.id) # NilPtr
           /\ ptrs' = ptrs /\ stores' = stores
        \/ /\ spanic' = spanic /\ Len(stores') = Len(stores) + 1
           /\ LET c == stores'[Len(stores')]
              IN /\ ptrsAt(ptrs, c.id) = NilPtr
                 /\ ptrsAt(ptrs', c.id) = c.p
                 /\ \A j \in IDs \ {c.id} : ptrsAt(ptrs', j) = ptrsAt(ptrs, j)

\* C29: store fails fatally when the ID already maps to a pointer, and the
\* mapping stays as it was; under an ID that maps to no pointer it records
\* the pointer; so after any sequence of stores that returned, every ID maps
\* to the first pointer stored under it, and no store follows a failed one.
C29_StoreOnce ==
    /\ [][StoreStep]_vars
    /\ [](\A i \in IDs : ptrsAt(ptrs, i) = FirstStored(stores, 1, i))
    /\ [][spanic # <<>> => UNCHANGED <<ptrs, stores, spanic>>]_vars

\* a second pointer was handed to store for ID 1 after a first was recorded:
\* the call panicked and ID 1 still maps to the first
C29_Witness ==
    /\ Len(stores) = 2
    /\ stores[1] = [id |-> 1, p |-> "0xc000010000"]
    /\ stores[2].id = 2
    /\ spanic = [id |-> 1, p |-> "0xc000010008"]
    /\ ptrsAt(ptrs, 1) = "0xc000010000"

====
